---- MODULE Spec2Model ----
(***************************************************************************)
(* Connector contract, engine adapters and source registry of the         *)
(* opendb-mcp-server: BaseConnector (execute template, write              *)
(* classification), the Postgres / MySQL / SQL Server / SQLite / Hive     *)
(* adapters' connect, disconnect and executeQuery, the ConnectorManager   *)
(* (factory, resolve, connectAll, disconnectAll, listSources) and the     *)
(* execute_sql / search_objects tools.                                    *)
(*                                                                         *)
(* Every handler is an async function: one action of the model is one     *)
(* synchronous run of a handler, from the point where it is resumed to    *)
(* its next await.  Callers interleave at the awaits only.                *)
(***************************************************************************)
EXTENDS Integers, Sequences, FiniteSets, TLC

(***************************************************************************)
(* Text.  A statement is a sequence of one-character strings.             *)
(***************************************************************************)
LowerLetters == <<"a","b","c","d","e","f","g","h","i","j","k","l","m",
                  "n","o","p","q","r","s","t","u","v","w","x","y","z">>

UpperLetters == <<"A","B","C","D","E","F","G","H","I","J","K","L","M",
                  "N","O","P","Q","R","S","T","U","V","W","X","Y","Z">>

\* The characters String.prototype.trim removes (those the inputs use).
WhiteSpace == {" ", "\t", "\n"}

toUpperChar(ch) ==
  IF \E i \in 1..26 : LowerLetters[i] = ch
    THEN UpperLetters[CHOOSE i \in 1..26 : LowerLetters[i] = ch]
    ELSE ch

toLowerChar(ch) ==
  IF \E i \in 1..26 : UpperLetters[i] = ch
    THEN LowerLetters[CHOOSE i \in 1..26 : UpperLetters[i] = ch]
    ELSE ch

toUpperCase(s) == [i \in 1..Len(s) |-> toUpperChar(s[i])]

toLowerCase(s) == [i \in 1..Len(s) |-> toLowerChar(s[i])]

RECURSIVE trimStart(_)
trimStart(s) ==
  IF s # <<>> /\ Head(s) \in WhiteSpace THEN trimStart(Tail(s)) ELSE s

RECURSIVE trimEnd(_)
trimEnd(s) ==
  IF s # <<>> /\ s[Len(s)] \in WhiteSpace
    THEN trimEnd(SubSeq(s, 1, Len(s) - 1))
    ELSE s

trim(s) == trimEnd(trimStart(s))

startsWith(s, prefix) ==
  /\ Len(prefix) <= Len(s)
  /\ SubSeq(s, 1, Len(prefix)) = prefix

includes(s, part) ==
  \E i \in 1..(Len(s) - Len(part) + 1) : SubSeq(s, i, i + Len(part) - 1) = part

(***************************************************************************)
(* BaseConnector.isWriteQuery                                              *)
(***************************************************************************)
writeKeywords ==
  << <<"I","N","S","E","R","T">>,
     <<"U","P","D","A","T","E">>,
     <<"D","E","L","E","T","E">>,
     <<"D","R","O","P">>,
     <<"C","R","E","A","T","E">>,
     <<"A","L","T","E","R">>,
     <<"T","R","U","N","C","A","T","E">>,
     <<"G","R","A","N","T">>,
     <<"R","E","V","O","K","E">>,
     <<"M","E","R","G","E">>,
     <<"U","P","S","E","R","T">>,
     <<"R","E","P","L","A","C","E">> >>

\* A plausible slip: the statement is upper-cased but not trimmed.
isWriteQueryNoTrim(sql) ==
  \E k \in 1..Len(writeKeywords) : startsWith(toUpperCase(sql), writeKeywords[k])

\* isWriteQuery() looking for a write keyword anywhere in the statement.
isWriteQueryAnywhere(sql) ==
  \E k \in 1..Len(writeKeywords) : includes(toUpperCase(trim(sql)), writeKeywords[k])

isWriteQuery(sql) ==
  LET normalized == toUpperCase(trim(sql))
  IN  \E k \in 1..Len(writeKeywords) : startsWith(normalized, writeKeywords[k])

(***************************************************************************)
(* Inputs: the statements callers submit.  A statement is a leading       *)
(* whitespace run, a leading keyword in some letter case, and a tail.     *)
(***************************************************************************)
otherKeywords ==
  << <<"S","E","L","E","C","T">>,
     <<"W","I","T","H">>,
     <<"S","H","O","W">> >>

leadingKeywords == writeKeywords \o otherKeywords

capitalize(w) == [i \in 1..Len(w) |-> IF i = 1 THEN toUpperChar(w[i]) ELSE toLowerChar(w[i])]

letterCases(w) == {toUpperCase(w), toLowerCase(w), capitalize(w)}

leads == {<< >>, <<" ">>, <<"\n", "\t">>}

tails == {<<" ", "t">>, <<" ", "'", "u", "p", "d", "a", "t", "e", "'", " ">>}

\* Every leading keyword in every letter case behind every lead, with every tail.
AllStatements ==
  {l \o w \o t : l \in leads,
                 w \in UNION {letterCases(leadingKeywords[k]) : k \in 1..Len(leadingKeywords)},
                 t \in tails}

selectT == <<"S","E","L","E","C","T"," ","t">>

deleteT == <<" ","d","e","l","e","t","e"," ","t">>

\* The statements of the runs with several sources or several callers.
FewStatements == {selectT, deleteT}

\* The statements of the runs about row limiting: SELECT with and without leading
\* whitespace, WITH, SELECT with a LIMIT clause behind a space and behind a newline,
\* SELECT with a TOP clause, SHOW, and a write.
LimitStatements ==
  { selectT,
    <<" ","s","e","l","e","c","t"," ","t">>,
    <<"W","I","T","H"," ","t">>,
    <<"s","e","l","e","c","t"," ","t"," ","l","i","m","i","t"," ","1">>,
    <<"s","e","l","e","c","t"," ","t","\n","l","i","m","i","t"," ","1">>,
    <<"S","E","L","E","C","T"," ","T","O","P"," ","1"," ","t">>,
    <<"S","H","O","W"," ","t">>,
    deleteT }

(***************************************************************************)
(* Configuration (config/types.ts).  An optional field is <<>> when       *)
(* undefined and <<v>> when set; a ?? b is Coalesce(a, b).                *)
(***************************************************************************)
Undefined == << >>

Coalesce(a, b) == IF a # Undefined THEN a ELSE b

\* config/types.ts: the engine types a source may name.
DatabaseType == {"postgres", "mysql", "mariadb", "sqlserver", "sqlite", "hive", "impala"}

DEFAULT_MAX_ROWS == 1000

Source(id, type, ro) ==
  [id |-> id, type |-> type, readonly |-> ro,
   auth_mechanism |-> "NONE", keytab |-> Undefined, user_principal |-> Undefined]

\* A source that authenticates with a keytab.
KerberosSource(id, type, ro) ==
  [Source(id, type, ro) EXCEPT !.auth_mechanism = "KERBEROS", !.keytab = <<"keytab">>,
                               !.user_principal = <<"principal">>]

Settings(ro, rows) == [readonly |-> ro, max_rows |-> rows]

\* Bound: settings.max_rows of the configurations.
MaxRowsSetting == 2

\* One source of each pooled engine, under either global readonly setting.
SingleConfigs ==
  {[settings |-> Settings(g, MaxRowsSetting), sources |-> <<Source(id, ty, ro)>>, direct |-> FALSE] :
     g \in BOOLEAN, id \in {"p"}, ty \in {"postgres", "sqlserver"}, ro \in {Undefined}}

\* Several sources: "a"/"b" without a "default", and three sources with one.
MultiConfigs ==
  { [settings |-> Settings(TRUE, MaxRowsSetting),
     sources  |-> <<Source("a", "mysql", <<FALSE>>), Source("b", "hive", Undefined)>>,
     direct   |-> FALSE],
    [settings |-> Settings(FALSE, MaxRowsSetting),
     sources  |-> <<Source("a", "postgres", <<TRUE>>), Source("default", "mariadb", Undefined),
                    Source("b", "sqlserver", Undefined)>>,
     direct   |-> FALSE] }

\* A SqliteConnector built with `new SqliteConnector(config, options)`: the
\* factory of the ConnectorManager has no case for 'sqlite'.
DirectConfigs ==
  { [settings |-> Settings(TRUE, MaxRowsSetting),
     sources  |-> <<Source("s", "sqlite", ro)>>,
     direct   |-> TRUE] : ro \in {Undefined, <<FALSE>>} }

\* One source handed to the ConnectorManager whose type its factory has no case for:
\* 'sqlite', a DatabaseType, and 'oracle', which is none.
FactoryConfigs ==
  { [settings |-> Settings(FALSE, MaxRowsSetting),
     sources  |-> <<Source("f", ty, Undefined)>>,
     direct   |-> FALSE] : ty \in {"sqlite", "oracle"} }

\* One writable source of each engine that rewrites statements, with the two largest
\* max_rows settings within the bound; the SQLite source is built directly.
RowConfigs ==
  { [settings |-> Settings(FALSE, n), sources |-> <<Source("p", ty, Undefined)>>,
     direct |-> ty = "sqlite"] :
       n \in (MaxRowsSetting - 1)..MaxRowsSetting, ty \in {"postgres", "mysql", "sqlserver", "sqlite"} }

\* One Postgres connector built with `new PostgresConnector(config, options)`, under
\* either readonly option: the connector two callers share.
ConcurrentConfigs ==
  { [settings |-> Settings(g, MaxRowsSetting),
     sources  |-> <<Source("p", "postgres", Undefined)>>,
     direct   |-> TRUE] : g \in BOOLEAN }

\* One Hive connector that authenticates with a keytab, built with
\* `new HiveConnector(config, options)`.
KerberosConfigs ==
  { [settings |-> Settings(FALSE, MaxRowsSetting),
     sources  |-> <<KerberosSource("k", "hive", Undefined)>>,
     direct   |-> TRUE] }

SourceIds(cfg) == {cfg.sources[i].id : i \in 1..Len(cfg.sources)}

SourceOf(cfg, id) == cfg.sources[CHOOSE i \in 1..Len(cfg.sources) : cfg.sources[i].id = id]

(***************************************************************************)
(* Construction: BaseConnector.constructor, ConnectorManager.constructor  *)
(* and ConnectorManager.createConnector.                                  *)
(***************************************************************************)
\* ConnectorManager.constructor: the global options taken from the settings.
globalOptions(cfg) ==
  [readonly |-> <<cfg.settings.readonly>>, maxRows |-> <<cfg.settings.max_rows>>]

\* BaseConnector.constructor with the operands of ?? swapped: the options win over
\* the source's own flag.
BaseConnectorGlobalWins(cls, source, options) ==
  [cls         |-> cls,
   type        |-> source.type,
   options     |-> [readonly |-> Coalesce(Coalesce(options.readonly, source.readonly), <<FALSE>>)[1],
                    maxRows  |-> Coalesce(options.maxRows, <<DEFAULT_MAX_ROWS>>)[1]],
   isConnected |-> FALSE,
   handle      |-> 0,
   session     |-> 0]

\* BaseConnector.constructor: the connector's merged options and initial fields.
BaseConnector(cls, source, options) ==
  [cls         |-> cls,
   type        |-> source.type,
   options     |-> [readonly |-> Coalesce(Coalesce(source.readonly, options.readonly), <<FALSE>>)[1],
                    maxRows  |-> Coalesce(options.maxRows, <<DEFAULT_MAX_ROWS>>)[1]],
   isConnected |-> FALSE,
   handle      |-> 0,
   session     |-> 0]

\* The switch of createConnector: the class built for a type, "" for the default case.
ConnectorClass(type) ==
  CASE type = "postgres"            -> "PostgresConnector"
    [] type \in {"mysql", "mariadb"} -> "MySqlConnector"
    [] type = "sqlserver"           -> "SqlServerConnector"
    [] type = "hive"                -> "HiveConnector"
    [] type = "impala"              -> "ImpalaConnector"
    [] OTHER                        -> ""

createConnector(cfg, source) ==
  LET options == [globalOptions(cfg) EXCEPT
                    !.readonly = Coalesce(source.readonly, globalOptions(cfg).readonly)]
  IN  BaseConnector(ConnectorClass(source.type), source, options)

\* new ConnectorManager(config) throws when createConnector throws for a source.
ManagerBuilds(cfg) == \A i \in 1..Len(cfg.sources) : ConnectorClass(cfg.sources[i].type) # ""

(***************************************************************************)
(* State                                                                   *)
(***************************************************************************)
VARIABLES
  config,      \* the ParsedConfig the process was started with
  callers,     \* the tool invocations that may be in progress at once
  sqlPool,     \* the statements the callers submit
  table,       \* the rows of the table the statements read, in the engine's order
  env,         \* the readings of Date.now(), the answers of klist, the maxRows options of execute()
  mgr,         \* ConnectorManager: built, and the keys of its connectors map in insertion order
  conn,        \* per source id, the connector object: options, _isConnected, handle, session
  open,        \* per source id, the engine handles (pools, databases, clients) created and not closed
  sessions,    \* per source id, the Hive sessions opened and not closed (named by their client)
  hiveDriver,  \* the hive-driver package: installed, and loaded into the module's HiveClient
  kerberos,    \* per source id, this.kerberosAuth and the KerberosAuth objects created for it
  ccache,      \* the credential cache of the process, which every kinit and kdestroy it spawns acts on
  proc,        \* per caller, the frame of the call in progress
  ret          \* per caller, the outcome of its last completed call

vars == <<config, callers, sqlPool, table, env, mgr, conn, open, sessions, hiveDriver, kerberos, ccache, proc, ret>>

static == <<config, callers, sqlPool, table, env, mgr>>

world == <<conn, open, sessions, hiveDriver, kerberos, ccache>>

\* Bound: the engine handles one connector may have created (open or referenced) at a time.
MaxHandles == 2

Ids == DOMAIN conn

\* Bound: the KerberosAuth objects of one connector that are alive at a time (referenced
\* by the connector, by a call in progress, or by their own timer or refresh).
MaxAuths == 1

Auths == 1..MaxAuths

\* scheduleRefresh: `10 * 60 * 1000`, the margin before the expiry, in milliseconds.
TEN_MINUTES == 10 * 60 * 1000

\* scheduleRefresh: `4 * 60 * 60 * 1000`, the delay when no expiry is known.
FOUR_HOURS == 4 * 60 * 60 * 1000

\* getTicketExpiry: `8 * 60 * 60 * 1000`, the lifetime assumed when klist prints no date.
EIGHT_HOURS == 8 * 60 * 60 * 1000

\* Bound: the instants of the clock, one margin apart, counted from 0.
MaxInstant == 2

Instants == {i * TEN_MINUTES : i \in 0..MaxInstant}

\* What a run of `klist -c` gives getTicketExpiry: no success (a non-zero exit code or a
\* spawn error), an output without a date, or an output whose first date is `date`.
KlistAnswers ==
  {[ok |-> FALSE, match |-> FALSE, date |-> 0], [ok |-> TRUE, match |-> FALSE, date |-> 0]}
    \cup {[ok |-> TRUE, match |-> TRUE, date |-> d] : d \in Instants}

\* Bound: the maxRows a caller passes to execute() in its options.
MaxRowsOption == 1

\* No timer is scheduled: no delay, no expiry and no clock reading went into one.
NoSchedule == [refreshIn |-> 0, expiry |-> << >>, now |-> 0]

\* new KerberosAuth(config): initialized = false, ticketExpiry = null, refreshTimer = null;
\* no refresh() runs.  `scheduled` is what scheduleRefresh() computed for the pending
\* timer.  Two fields record the history of the object: `everInitialized` (an initialize()
\* succeeded on it) and `destroyed` (destroy() was called, and no initialize() has
\* succeeded since).
NewKerberosAuth ==
  [initialized |-> FALSE, ticketExpiry |-> << >>, refreshTimer |-> FALSE, scheduled |-> NoSchedule,
   refreshing |-> "no", everInitialized |-> FALSE, destroyed |-> FALSE, timers |-> 0]

\* HiveConnector's field `kerberosAuth = null` (0) and no KerberosAuth object yet.
NoKerberos == [auth |-> 0, objs |-> [a \in Auths |-> NewKerberosAuth]]

\* Bound: the rows of the table.
MaxTableRows == 5

\* A table of n rows, each row named by its position.
Rows(n) == [i \in 1..n |-> i]

\* Nothing was sent to the engine: no statement text, no fetch size.
NoSubmit == [text |-> << >>, fetch |-> 0]

\* No QueryResult.
NoResult == [kind |-> "none", rows |-> << >>, truncated |-> FALSE, rowCount |-> 0]

\* A caller's frame when no call is in progress.
Idle ==
  [op |-> "idle", call |-> "none", pc |-> "idle", c |-> "", h |-> 0, a |-> 0, sid |-> Undefined,
   sql |-> << >>, wasConnected |-> FALSE, before |-> [isConnected |-> FALSE, handle |-> 0],
   io |-> FALSE, submitted |-> NoSubmit, result |-> NoResult, err |-> "none", pending |-> "none",
   rest |-> << >>, errors |-> << >>, visited |-> << >>, now |-> 0, valid |-> FALSE,
   objectType |-> Undefined, table |-> Undefined, maxRows |-> Undefined, operation |-> "none"]

\* A caller's outcome before its first call and while a call is in progress.
NoRet ==
  [op |-> "none", c |-> "", sid |-> Undefined, sql |-> << >>, wasConnected |-> FALSE,
   before |-> [isConnected |-> FALSE, handle |-> 0], io |-> FALSE,
   submitted |-> NoSubmit, result |-> NoResult, err |-> "none",
   after |-> [isConnected |-> FALSE, handle |-> 0], list |-> << >>, errors |-> << >>,
   visited |-> << >>, now |-> 0, valid |-> FALSE, objectType |-> Undefined, table |-> Undefined,
   maxRows |-> Undefined, operation |-> "none"]

\* The class of a connector built directly, `new SqliteConnector(config, options)`
\* or the class the factory would have built.
DirectClass(type) == IF type = "sqlite" THEN "SqliteConnector" ELSE ConnectorClass(type)

\* The connectors built for a configuration, by the manager or directly; none when
\* the constructor of the manager throws.
Connectors(cfg) ==
  [id \in IF cfg.direct \/ ManagerBuilds(cfg) THEN SourceIds(cfg) ELSE {} |->
     IF cfg.direct
       THEN BaseConnector(DirectClass(SourceOf(cfg, id).type), SourceOf(cfg, id), globalOptions(cfg))
       ELSE createConnector(cfg, SourceOf(cfg, id))]

InitIn(cfg, who, pool, rows, e) ==
  /\ config = cfg
  /\ env = e
  /\ callers = who
  /\ sqlPool = pool
  /\ table = rows
  /\ mgr = IF ~cfg.direct /\ ManagerBuilds(cfg)
             THEN [built |-> TRUE, ids |-> [i \in 1..Len(cfg.sources) |-> cfg.sources[i].id]]
             ELSE [built |-> FALSE, ids |-> << >>]
  /\ conn = Connectors(cfg)
  /\ open = [id \in SourceIds(cfg) |-> {}]
  /\ sessions = [id \in SourceIds(cfg) |-> {}]
  /\ hiveDriver \in {[installed |-> i, loaded |-> FALSE] :
                       i \in IF \E id \in SourceIds(cfg) : SourceOf(cfg, id).type = "hive"
                               THEN BOOLEAN ELSE {TRUE}}
  /\ kerberos = [id \in SourceIds(cfg) |-> NoKerberos]
  /\ ccache = Undefined
  /\ proc = [p \in who |-> Idle]
  /\ ret = [p \in who |-> NoRet]

InitWith(cfg, who, pool, rows) ==
  InitIn(cfg, who, pool, rows, [clock |-> {0}, klist |-> {a \in KlistAnswers : ~a.ok},
                                maxRows |-> {Undefined}])

\* One caller, one source, each statement of AllStatements on its own.
InitStatements ==
  \E cfg \in SingleConfigs, s \in AllStatements :
    cfg.sources[1].type = "postgres" /\ InitWith(cfg, {"t1"}, {s}, Rows(MaxTableRows))

\* One caller, every configuration.
InitSequential ==
  \E cfg \in SingleConfigs \cup MultiConfigs \cup DirectConfigs \cup FactoryConfigs
                \cup KerberosConfigs :
    InitWith(cfg, {"t1"}, FewStatements, Rows(MaxTableRows))

\* Two overlapping callers of one connector.
InitConcurrent ==
  \E cfg \in ConcurrentConfigs : InitWith(cfg, {"t1", "t2"}, FewStatements, Rows(MaxTableRows))

\* One caller, one source, one statement of LimitStatements, a table of every size.
InitRows ==
  \E cfg \in RowConfigs, s \in LimitStatements, n \in 0..MaxTableRows :
    InitWith(cfg, {"t1"}, {s}, Rows(n))

(***************************************************************************)
(* Frames.  A connector call made for the caller itself (ApiOps) returns  *)
(* to the caller; one made by a manager loop, a tool or another connector *)
(* method returns to that caller, which goes on at its next step.         *)
(***************************************************************************)
ApiOps == {"connect", "disconnect", "execute", "searchObjects"}

Snapshot(cn, c) == [isConnected |-> cn[c].isConnected, handle |-> cn[c].handle]

Outcome(f, err, cn) ==
  [NoRet EXCEPT !.op = f.op, !.c = f.c, !.sid = f.sid, !.sql = f.sql,
                !.wasConnected = f.wasConnected, !.before = f.before, !.io = f.io, !.err = err,
                !.submitted = f.submitted,
                !.result = IF err = "none" THEN f.result ELSE NoResult,
                !.after = IF f.c \in DOMAIN cn THEN Snapshot(cn, f.c) ELSE NoRet.after,
                !.errors = f.errors, !.visited = f.visited, !.now = f.now, !.valid = f.valid,
                !.objectType = f.objectType, !.table = f.table, !.maxRows = f.maxRows,
                !.operation = f.operation]

\* The call of frame f waits for the engine.
Await(p, f) ==
  /\ proc' = [proc EXCEPT ![p] = f]
  /\ ret' = [ret EXCEPT ![p] = NoRet]

\* The connector call of frame f returns (err = "none") or throws err; cn is the
\* connector state it leaves.
Finish(p, f, err, cn) ==
  IF f.op \in ApiOps /\ f.call = f.op
    THEN /\ proc' = [proc EXCEPT ![p] = Idle]
         /\ ret' = [ret EXCEPT ![p] = Outcome(f, err, cn)]
    ELSE /\ proc' = [proc EXCEPT ![p] = [f EXCEPT !.pc = "returned", !.err = err]]
         /\ ret' = [ret EXCEPT ![p] = NoRet]

\* The top-level call of frame f is over.
Return(p, f, err) ==
  /\ proc' = [proc EXCEPT ![p] = Idle]
  /\ ret' = [ret EXCEPT ![p] = Outcome(f, err, conn)]

\* A caller starts a call: a fresh frame.
Begin(op) == [Idle EXCEPT !.op = op]

Pooled(c) == conn[c].cls \in {"PostgresConnector", "MySqlConnector", "SqlServerConnector"}

\* A handle id for a new engine handle: not open and not referenced.
Fresh(c) ==
  {h \in 1..MaxHandles :
     /\ h \notin open[c] \cup sessions[c]
     /\ h # conn[c].handle
     /\ h # conn[c].session
     /\ \A q \in callers : ~(proc[q].c = c /\ proc[q].h = h)}

NewHandle(c) == CHOOSE h \in Fresh(c) : \A g \in Fresh(c) : h <= g

(***************************************************************************)
(* connect()                                                               *)
(***************************************************************************)
\* `if (this._isConnected) return;` dropped.
connectAlways(c) == FALSE

\* The first line of every connect(): `if (this._isConnected) return;`
connectReturnsEarly(c) == conn[c].isConnected

\* connect() up to its first await.  Postgres, MySQL, SQL Server: the pool is
\* created and assigned, then the test connection is awaited.  SQLite: the whole
\* body is synchronous.  Hive: loadHiveDriver() is awaited first.
ConnectEnter(p, c, f0) ==
  LET f == [f0 EXCEPT !.call = "connect", !.c = c, !.wasConnected = conn[c].isConnected,
                      !.before = Snapshot(conn, c), !.visited = Append(@, c)]
  IN  IF connectReturnsEarly(c)
        THEN /\ UNCHANGED <<conn, open, sessions, hiveDriver, kerberos, ccache>>
             /\ Finish(p, f, "none", conn)
      ELSE IF Pooled(c)
        THEN /\ Fresh(c) # {}
             /\ conn' = [conn EXCEPT ![c].handle = NewHandle(c)]
             /\ open' = [open EXCEPT ![c] = @ \cup {NewHandle(c)}]
             /\ UNCHANGED <<sessions, hiveDriver, kerberos, ccache>>
             /\ Await(p, [f EXCEPT !.pc = "await_connect", !.io = TRUE])
      ELSE IF conn[c].cls = "SqliteConnector"
        THEN /\ Fresh(c) # {}
             /\ \E ok \in BOOLEAN :
                  LET cn == IF ok THEN [conn EXCEPT ![c].handle = NewHandle(c),
                                                    ![c].isConnected = TRUE]
                                  ELSE conn
                  IN  /\ conn' = cn
                      /\ open' = IF ok THEN [open EXCEPT ![c] = @ \cup {NewHandle(c)}] ELSE open
                      /\ Finish(p, [f EXCEPT !.io = TRUE], IF ok THEN "none" ELSE "ConnectionError", cn)
             /\ UNCHANGED <<sessions, hiveDriver, kerberos, ccache>>
      ELSE /\ UNCHANGED <<conn, open, sessions, hiveDriver, kerberos, ccache>>
           /\ Await(p, [f EXCEPT !.pc = "hive_load"])

\* Postgres, MySQL, SQL Server: the awaited test connection resolves or rejects.
ConnectDone(p) ==
  /\ proc[p].pc = "await_connect"
  /\ \E ok \in BOOLEAN :
       LET c  == proc[p].c
           cn == IF ok THEN [conn EXCEPT ![c].isConnected = TRUE] ELSE conn
       IN  /\ conn' = cn
           /\ Finish(p, proc[p], IF ok THEN "none" ELSE "ConnectionError", cn)
  /\ UNCHANGED <<open, sessions, hiveDriver, kerberos, ccache>>
  /\ UNCHANGED static

\* connect() without its Kerberos branch.
KerberizedNever(c) == FALSE

\* connect(): `config.auth_mechanism === 'KERBEROS' && config.keytab && config.user_principal`.
Kerberized(c) ==
  LET source == SourceOf(config, c)
  IN  /\ source.auth_mechanism = "KERBEROS"
      /\ source.keytab # Undefined
      /\ source.user_principal # Undefined

\* kinit(): `spawn('kinit', ['-kt', keytabPath, principal])` exits with code 0, and the
\* credential cache holds the ticket of the principal.
kinitCache(c) == SourceOf(config, c).user_principal

\* The KerberosAuth objects of connector c nothing refers to any more.
FreeAuths(c) ==
  {a \in Auths :
     /\ a # kerberos[c].auth
     /\ ~kerberos[c].objs[a].refreshTimer
     /\ kerberos[c].objs[a].refreshing = "no"
     /\ \A q \in callers : ~(proc[q].c = c /\ proc[q].a = a)}

\* getTicketExpiry(): the first date of klist's output, or 8 hours from now when the
\* output has none; << >> when the promise rejects.
getTicketExpiry(answer, now) ==
  IF ~answer.ok THEN << >>
  ELSE IF answer.match THEN <<answer.date>>
  ELSE <<now + EIGHT_HOURS>>

\* kinit() resolves: `this.ticketExpiry = expiry` when getTicketExpiry() resolved, and
\* nothing when it rejected (`.catch(() => resolve())`).
kinitResolved(o, answer, now) ==
  IF answer.ok THEN [o EXCEPT !.ticketExpiry = getTicketExpiry(answer, now)] ELSE o

\* scheduleRefresh() without the floor of Math.max.
refreshInNoFloor(ticketExpiry, now) ==
  IF ticketExpiry # << >> THEN ticketExpiry[1] - now - TEN_MINUTES ELSE FOUR_HOURS

\* scheduleRefresh(): the delay `refreshIn` of the timer,
\* `ticketExpiry ? Math.max(0, expiry - Date.now() - 10 * 60 * 1000) : 4 * 60 * 60 * 1000`.
refreshIn(ticketExpiry, now) ==
  IF ticketExpiry = << >> THEN FOUR_HOURS
  ELSE IF ticketExpiry[1] - now - TEN_MINUTES >= 0 THEN ticketExpiry[1] - now - TEN_MINUTES
  ELSE 0

\* clearTimeout(this.refreshTimer): the timer the field refers to is pending no more.
clearTimer(o) ==
  [o EXCEPT !.refreshTimer = FALSE, !.scheduled = NoSchedule,
            !.timers = IF o.refreshTimer THEN @ - 1 ELSE @]

\* scheduleRefresh() without `if (this.refreshTimer) clearTimeout(this.refreshTimer)`.
scheduleRefreshNoClear(o, now) ==
  [o EXCEPT !.refreshTimer = TRUE,
            !.timers = @ + 1,
            !.scheduled = [refreshIn |-> refreshIn(o.ticketExpiry, now),
                           expiry    |-> o.ticketExpiry,
                           now       |-> now]]

\* scheduleRefresh(): the pending timer, if any, is cleared and a new one set.
scheduleRefresh(o, now) ==
  [clearTimer(o) EXCEPT !.refreshTimer = TRUE,
                        !.timers = @ + 1,
                        !.scheduled = [refreshIn |-> refreshIn(o.ticketExpiry, now),
                                       expiry    |-> o.ticketExpiry,
                                       now       |-> now]]

\* initialize() after its kinit resolved: `initialized = true`, scheduleRefresh().
initializeDone(o, answer, now) ==
  scheduleRefresh([kinitResolved(o, answer, now) EXCEPT !.initialized = TRUE,
                                                        !.everInitialized = TRUE,
                                                        !.destroyed = FALSE], now)

\* refresh() of an initialized authenticator after its kinit resolved: scheduleRefresh().
refreshDone(o, answer, now) == scheduleRefresh(kinitResolved(o, answer, now), now)

\* isValid() with `<=` for `<`.
isValidNotStrict(o, now) ==
  IF ~o.initialized THEN FALSE
  ELSE IF o.ticketExpiry = << >> THEN TRUE
  ELSE now <= o.ticketExpiry[1]

\* isValid(): `new Date() < this.ticketExpiry` once initialized with a known expiry.
isValid(o, now) ==
  IF ~o.initialized THEN FALSE
  ELSE IF o.ticketExpiry = << >> THEN TRUE
  ELSE now < o.ticketExpiry[1]

\* destroy() of authenticator a of a connector up to `await this.kdestroy()`: the timer
\* is cleared.
destroyEnter(k, a) == [k EXCEPT !.objs[a] = [clearTimer(@) EXCEPT !.destroyed = TRUE]]

\* destroy() after kdestroy: `initialized = false; ticketExpiry = null` if it succeeded,
\* a warning if it failed.
destroyDone(k, a, ok) ==
  IF ok THEN [k EXCEPT !.objs[a].initialized = FALSE, !.objs[a].ticketExpiry = << >>] ELSE k

\* The catch block of HiveConnector.connect, entered with the authenticators kb:
\* `if (this.kerberosAuth) await this.kerberosAuth.destroy()`, then the ConnectionError.
HiveConnectCatch(p, f, kb) ==
  LET c == f.c
  IN  IF kb[c].auth # 0
        THEN /\ kerberos' = [kb EXCEPT ![c] = destroyEnter(@, kb[c].auth)]
             /\ UNCHANGED ccache
             /\ Await(p, [f EXCEPT !.pc = "krb_destroy", !.h = 0, !.a = kb[c].auth])
        ELSE /\ kerberos' = kb
             /\ UNCHANGED ccache
             /\ Finish(p, [f EXCEPT !.h = 0, !.a = 0], "ConnectionError", conn)

\* connect(): `this.client = new HiveClient(...)`, then client.connect() is awaited.
HiveClientCreate(p, f) ==
  LET c == f.c
  IN  /\ Fresh(c) # {}
      /\ conn' = [conn EXCEPT ![c].handle = NewHandle(c)]
      /\ open' = [open EXCEPT ![c] = @ \cup {NewHandle(c)}]
      /\ Await(p, [f EXCEPT !.pc = "hive_connect", !.h = NewHandle(c), !.a = 0, !.io = TRUE])

\* Hive: loadHiveDriver() is over.  Without the package it throws a plain Error
\* outside connect()'s try block.  With it, a source with Kerberos gets a new
\* KerberosAuth whose initialize() finds the keytab (kinit is awaited) or throws;
\* any other source has its client created at once.
HiveDriverLoaded(p) ==
  /\ proc[p].pc = "hive_load"
  /\ LET c == proc[p].c
     IN  IF ~hiveDriver.loaded /\ ~hiveDriver.installed
           THEN /\ UNCHANGED <<conn, open, hiveDriver, kerberos, ccache>>
                /\ Finish(p, proc[p], "Error/DriverMissing", conn)
         ELSE IF Kerberized(c)
           THEN /\ FreeAuths(c) # {}
                /\ hiveDriver' = [hiveDriver EXCEPT !.loaded = TRUE]
                /\ UNCHANGED <<conn, open>>
                /\ LET a  == CHOOSE a1 \in FreeAuths(c) : \A g \in FreeAuths(c) : a1 <= g
                       kb == [kerberos EXCEPT ![c].auth = a, ![c].objs[a] = NewKerberosAuth]
                   IN  \E found \in BOOLEAN :
                         IF found
                           THEN /\ kerberos' = kb
                                /\ UNCHANGED ccache
                                /\ Await(p, [proc[p] EXCEPT !.pc = "krb_kinit", !.a = a])
                           ELSE HiveConnectCatch(p, proc[p], kb)
         ELSE /\ hiveDriver' = [hiveDriver EXCEPT !.loaded = TRUE]
              /\ HiveClientCreate(p, proc[p])
              /\ UNCHANGED <<kerberos, ccache>>
  /\ UNCHANGED sessions
  /\ UNCHANGED static

\* Hive with Kerberos: the kinit of initialize() ends.  Success: `initialized = true`,
\* scheduleRefresh(), and connect() goes on to create its client.  Failure: the
\* KerberosError reaches the catch block of connect().
KerberosKinitDone(p) ==
  /\ proc[p].pc = "krb_kinit"
  /\ \E ok \in BOOLEAN :
       LET c == proc[p].c
           a == proc[p].a
       IN  IF ok
             THEN /\ \E answer \in env.klist, now \in env.clock :
                       kerberos' = [kerberos EXCEPT ![c].objs[a] = initializeDone(@, answer, now)]
                  /\ ccache' = kinitCache(c)
                  /\ HiveClientCreate(p, proc[p])
             ELSE /\ HiveConnectCatch(p, proc[p], kerberos)
                  /\ UNCHANGED <<conn, open>>
  /\ UNCHANGED <<sessions, hiveDriver>>
  /\ UNCHANGED static

\* Hive: client.connect() resolves (openSession is awaited next) or rejects.
HiveClientConnected(p) ==
  /\ proc[p].pc = "hive_connect"
  /\ \E ok \in BOOLEAN :
       IF ok THEN Await(p, [proc[p] EXCEPT !.pc = "hive_open"]) /\ UNCHANGED <<kerberos, ccache>>
             ELSE HiveConnectCatch(p, proc[p], kerberos)
  /\ UNCHANGED <<conn, open, sessions, hiveDriver>>
  /\ UNCHANGED static

\* Hive: openSession() resolves (the session is stored, the flag set) or rejects.
HiveSessionOpened(p) ==
  /\ proc[p].pc = "hive_open"
  /\ \E ok \in BOOLEAN :
       LET c  == proc[p].c
           cn == [conn EXCEPT ![c].session = proc[p].h, ![c].isConnected = TRUE]
       IN  IF ok
             THEN /\ conn' = cn
                  /\ sessions' = [sessions EXCEPT ![c] = @ \cup {proc[p].h}]
                  /\ Finish(p, [proc[p] EXCEPT !.h = 0], "none", cn)
                  /\ UNCHANGED <<kerberos, ccache>>
             ELSE /\ UNCHANGED <<conn, sessions>>
                  /\ HiveConnectCatch(p, proc[p], kerberos)
  /\ UNCHANGED <<open, hiveDriver>>
  /\ UNCHANGED static

(***************************************************************************)
(* disconnect()                                                            *)
(***************************************************************************)
\* disconnect() putting a newly built connector, without the source's options, in the
\* place of the one it closed.
ReleasedReplaced(cn, c) ==
  [cn EXCEPT ![c].handle = 0, ![c].session = 0, ![c].isConnected = FALSE,
             ![c].options = [readonly |-> FALSE, maxRows |-> DEFAULT_MAX_ROWS]]

\* The fields a completed disconnect() resets.
Released(cn, c) == [cn EXCEPT ![c].handle = 0, ![c].session = 0, ![c].isConnected = FALSE]

\* The finally block of HiveConnector.disconnect, entered with the authenticators kb:
\* client, session and kerberosAuth are set to null and the flag to false.
HiveDisconnectFinally(p, f, kb, cc) ==
  /\ conn' = Released(conn, f.c)
  /\ kerberos' = [kb EXCEPT ![f.c].auth = 0]
  /\ ccache' = cc
  /\ Finish(p, [f EXCEPT !.h = 0, !.a = 0], "none", Released(conn, f.c))

\* The last statement of the try block of HiveConnector.disconnect:
\* `if (this.kerberosAuth) await this.kerberosAuth.destroy()`, then the finally block.
HiveDisconnectDestroy(p, f) ==
  LET c == f.c
  IN  IF kerberos[c].auth # 0
        THEN /\ kerberos' = [kerberos EXCEPT ![c] = destroyEnter(@, kerberos[c].auth)]
             /\ UNCHANGED ccache
             /\ UNCHANGED conn
             /\ Await(p, [f EXCEPT !.pc = "krb_destroy", !.h = 0, !.a = kerberos[c].auth])
        ELSE HiveDisconnectFinally(p, f, kerberos, ccache)

\* disconnect() up to its first await.  Postgres, MySQL, SQL Server:
\* `if (this.pool) { await this.pool.end(); ... }`.  SQLite: the same with a
\* synchronous close().  Hive: try { session.close(); client.close();
\* kerberosAuth.destroy() } catch { warn } finally { reset }.
DisconnectEnter(p, c, f0) ==
  LET f == [f0 EXCEPT !.call = "disconnect", !.c = c, !.wasConnected = conn[c].isConnected,
                      !.before = Snapshot(conn, c), !.visited = Append(@, c)]
  IN  IF Pooled(c)
        THEN /\ UNCHANGED <<conn, open, sessions, hiveDriver, kerberos, ccache>>
             /\ IF conn[c].handle # 0
                  THEN Await(p, [f EXCEPT !.pc = "await_end", !.h = conn[c].handle, !.io = TRUE])
                  ELSE Finish(p, f, "none", conn)
      ELSE IF conn[c].cls = "SqliteConnector"
        THEN /\ UNCHANGED <<sessions, hiveDriver, kerberos, ccache>>
             /\ IF conn[c].handle # 0
                  THEN \E ok \in BOOLEAN :
                         LET cn == IF ok THEN Released(conn, c) ELSE conn
                         IN  /\ conn' = cn
                             /\ open' = IF ok THEN [open EXCEPT ![c] = @ \ {conn[c].handle}] ELSE open
                             /\ Finish(p, [f EXCEPT !.io = TRUE], IF ok THEN "none" ELSE "Error/Close", cn)
                  ELSE /\ UNCHANGED <<conn, open>>
                       /\ Finish(p, f, "none", conn)
      ELSE IF conn[c].session # 0 /\ conn[c].handle # 0
        THEN /\ UNCHANGED <<conn, open, sessions, hiveDriver, kerberos, ccache>>
             /\ Await(p, [f EXCEPT !.pc = "hive_sclose", !.h = conn[c].session, !.io = TRUE])
      ELSE IF conn[c].handle # 0
        THEN /\ UNCHANGED <<conn, open, sessions, hiveDriver, kerberos, ccache>>
             /\ Await(p, [f EXCEPT !.pc = "hive_cclose", !.h = conn[c].handle, !.io = TRUE])
      ELSE /\ HiveDisconnectDestroy(p, f)
           /\ UNCHANGED <<open, sessions, hiveDriver>>

\* Postgres, MySQL, SQL Server: pool.end() / pool.close() resolves, and the fields
\* are reset; or it rejects, and the rejection leaves disconnect() at the await.
DisconnectDone(p) ==
  /\ proc[p].pc = "await_end"
  /\ \E ok \in BOOLEAN :
       LET c  == proc[p].c
           cn == IF ok THEN Released(conn, c) ELSE conn
       IN  /\ conn' = cn
           /\ open' = IF ok THEN [open EXCEPT ![c] = @ \ {proc[p].h}] ELSE open
           /\ Finish(p, [proc[p] EXCEPT !.h = 0], IF ok THEN "none" ELSE "Error/Close", cn)
  /\ UNCHANGED <<sessions, hiveDriver, kerberos, ccache>>
  /\ UNCHANGED static

\* Hive: session.close() resolves (client.close() is awaited next, if the client
\* is still set) or rejects (caught: the finally block resets the fields).
HiveSessionClosed(p) ==
  /\ proc[p].pc = "hive_sclose"
  /\ \E ok \in BOOLEAN :
       LET c == proc[p].c
       IN  IF ok /\ conn[c].handle # 0
             THEN /\ sessions' = [sessions EXCEPT ![c] = @ \ {proc[p].h}]
                  /\ UNCHANGED <<conn, kerberos, ccache>>
                  /\ Await(p, [proc[p] EXCEPT !.pc = "hive_cclose", !.h = conn[c].handle])
           ELSE IF ok
             THEN /\ sessions' = [sessions EXCEPT ![c] = @ \ {proc[p].h}]
                  /\ HiveDisconnectDestroy(p, proc[p])
           ELSE /\ UNCHANGED sessions
                /\ HiveDisconnectFinally(p, proc[p], kerberos, ccache)
  /\ UNCHANGED <<open, hiveDriver>>
  /\ UNCHANGED static

\* Hive: client.close() resolves (the authenticator is destroyed next, if there is
\* one) or rejects (caught: the finally block resets the fields).
HiveClientClosed(p) ==
  /\ proc[p].pc = "hive_cclose"
  /\ \E ok \in BOOLEAN :
       IF ok
         THEN /\ open' = [open EXCEPT ![proc[p].c] = @ \ {proc[p].h}]
              /\ HiveDisconnectDestroy(p, proc[p])
         ELSE /\ UNCHANGED open
              /\ HiveDisconnectFinally(p, proc[p], kerberos, ccache)
  /\ UNCHANGED <<sessions, hiveDriver>>
  /\ UNCHANGED static

\* Hive with Kerberos: the kdestroy of destroy() ends.  In connect() the
\* ConnectionError is thrown next; in disconnect() the finally block runs.
KerberosDestroyed(p) ==
  /\ proc[p].pc = "krb_destroy"
  /\ \E ok \in BOOLEAN :
       LET c  == proc[p].c
           kb == [kerberos EXCEPT ![c] = destroyDone(@, proc[p].a, ok)]
           cc == IF ok THEN Undefined ELSE ccache
       IN  IF proc[p].call = "connect"
             THEN /\ kerberos' = kb
                  /\ ccache' = cc
                  /\ UNCHANGED conn
                  /\ Finish(p, [proc[p] EXCEPT !.a = 0], "ConnectionError", conn)
             ELSE HiveDisconnectFinally(p, proc[p], kb, cc)
  /\ UNCHANGED <<open, sessions, hiveDriver>>
  /\ UNCHANGED static

\* The timer of scheduleRefresh() fires: refresh() runs.  An initialized authenticator
\* awaits kinit; one that is not calls initialize(), which awaits kinit if it finds
\* the keytab and throws otherwise (the rejection is logged).
KerberosTimerFired(c, a) ==
  /\ kerberos[c].objs[a].refreshTimer
  /\ \E found \in BOOLEAN :
       LET o == clearTimer(kerberos[c].objs[a])
       IN  kerberos' = [kerberos EXCEPT ![c].objs[a] =
                          IF o.initialized THEN [o EXCEPT !.refreshing = "refresh"]
                          ELSE IF found THEN [o EXCEPT !.refreshing = "initialize"]
                          ELSE o]
  /\ UNCHANGED <<conn, open, sessions, hiveDriver, ccache, proc, ret>>
  /\ UNCHANGED static

\* The kinit awaited by refresh() ends.  Success: scheduleRefresh() (after
\* `initialized = true` when refresh() went through initialize()).  Failure: logged.
KerberosRefreshDone(c, a) ==
  /\ kerberos[c].objs[a].refreshing # "no"
  /\ \E ok \in BOOLEAN :
       LET o == [kerberos[c].objs[a] EXCEPT !.refreshing = "no"]
       IN  IF ok
             THEN /\ \E answer \in env.klist, now \in env.clock :
                       kerberos' = [kerberos EXCEPT ![c].objs[a] =
                                      IF kerberos[c].objs[a].refreshing = "initialize"
                                        THEN initializeDone(o, answer, now)
                                        ELSE refreshDone(o, answer, now)]
                  /\ ccache' = kinitCache(c)
             ELSE /\ kerberos' = [kerberos EXCEPT ![c].objs[a] = o]
                  /\ UNCHANGED ccache
  /\ UNCHANGED <<conn, open, sessions, hiveDriver, proc, ret>>
  /\ UNCHANGED static

(***************************************************************************)
(* Row limiting: BaseConnector.wrapWithLimit, its SQL Server override and *)
(* BaseConnector.formatRows.                                               *)
(***************************************************************************)
Digits == <<"0", "1", "2", "3", "4", "5", "6", "7", "8", "9">>

\* `${maxRows}` in a template literal: the decimal digits of a non-negative integer.
RECURSIVE digits(_)
digits(n) == IF n < 10 THEN <<Digits[n + 1]>> ELSE digits(n \div 10) \o <<Digits[(n % 10) + 1]>>

selectKeyword == <<"S", "E", "L", "E", "C", "T">>

withKeyword == <<"W", "I", "T", "H">>

\* BaseConnector.wrapWithLimit(sql, maxRows).
wrapWithLimit(sql, maxRows) ==
  LET normalized == toUpperCase(trim(sql))
  IN  IF \/ includes(normalized, <<" ", "L", "I", "M", "I", "T", " ">>)
         \/ includes(normalized, <<" ", "T", "O", "P", " ">>)
         \/ includes(normalized, <<" ", "F", "E", "T", "C", "H", " ">>)
        THEN sql
      ELSE IF ~startsWith(normalized, selectKeyword)
        THEN sql
      ELSE trim(sql) \o <<" ", "L", "I", "M", "I", "T", " ">> \o digits(maxRows)

\* sqlQuery.replace(/^SELECT/i, `SELECT TOP ${maxRows}`): the pattern matches at the
\* first character of the string as given, in any letter case.
replaceLeadingSelect(sqlQuery, maxRows) ==
  IF startsWith(toUpperCase(sqlQuery), selectKeyword)
    THEN selectKeyword \o <<" ", "T", "O", "P", " ">> \o digits(maxRows)
           \o SubSeq(sqlQuery, Len(selectKeyword) + 1, Len(sqlQuery))
    ELSE sqlQuery

\* SqlServerConnector.wrapWithLimit(sqlQuery, maxRows).
wrapWithLimitSqlServer(sqlQuery, maxRows) ==
  LET normalized == toUpperCase(trim(sqlQuery))
  IN  IF \/ includes(normalized, <<" ", "T", "O", "P", " ">>)
         \/ includes(normalized, <<" ", "O", "F", "F", "S", "E", "T", " ">>)
         \/ ~startsWith(normalized, selectKeyword)
        THEN sqlQuery
        ELSE replaceLeadingSelect(sqlQuery, maxRows)

\* formatRows() testing `rows.length >= maxRows`.
formatRowsOffByOne(rows, maxRows) ==
  [rows      |-> IF Len(rows) >= maxRows THEN SubSeq(rows, 1, maxRows) ELSE rows,
   truncated |-> Len(rows) >= maxRows]

\* BaseConnector.formatRows(rows, maxRows).
formatRows(rows, maxRows) ==
  LET truncated == Len(rows) > maxRows
  IN  [rows      |-> IF truncated THEN SubSeq(rows, 1, maxRows) ELSE rows,
       truncated |-> truncated]

(***************************************************************************)
(* The engine: how a statement it receives is answered from a table.      *)
(***************************************************************************)
\* The first position of part in s, 0 when s does not hold it.
positionOf(s, part) ==
  IF includes(s, part)
    THEN CHOOSE i \in 1..Len(s) :
           /\ i + Len(part) - 1 <= Len(s)
           /\ SubSeq(s, i, i + Len(part) - 1) = part
           /\ \A j \in 1..(i - 1) : SubSeq(s, j, j + Len(part) - 1) # part
    ELSE 0

digitValue(ch) == (CHOOSE i \in 1..10 : Digits[i] = ch) - 1

\* The number written in s from position i on.
RECURSIVE numberAt(_, _, _)
numberAt(s, i, acc) ==
  IF i <= Len(s) /\ (\E d \in 1..10 : Digits[d] = s[i]) THEN numberAt(s, i + 1, acc * 10 + digitValue(s[i])) ELSE acc

\* The words of a statement are separated by any whitespace.
spaced(s) == [i \in 1..Len(s) |-> IF s[i] \in WhiteSpace THEN " " ELSE s[i]]

\* The row limit a statement asks of the engine with LIMIT n or TOP n: <<n>>, or
\* Undefined when it has neither.
limitClause(text) ==
  LET u == spaced(toUpperCase(text))
      l == positionOf(u, <<" ", "L", "I", "M", "I", "T", " ">>)
      t == positionOf(u, <<" ", "T", "O", "P", " ">>)
  IN  IF l # 0 THEN <<numberAt(u, l + 7, 0)>>
      ELSE IF t # 0 THEN <<numberAt(u, t + 5, 0)>>
      ELSE Undefined

\* The statements the engine answers with rows.
isQuery(text) ==
  LET u == toUpperCase(trim(text))
  IN  \/ startsWith(u, selectKeyword)
      \/ startsWith(u, withKeyword)
      \/ startsWith(u, <<"S", "H", "O", "W">>)

\* The rows the engine returns for a statement: the first rows of the table, as many
\* as the statement's clause and the fetch size allow (fetch = 0: no fetch size).
engineRows(sub) ==
  LET clause   == limitClause(sub.text)
      byClause == IF clause = Undefined THEN Len(table)
                  ELSE IF clause[1] < Len(table) THEN clause[1]
                  ELSE Len(table)
      count    == IF sub.fetch > 0 /\ sub.fetch < byClause THEN sub.fetch ELSE byClause
  IN  IF isQuery(sub.text) THEN SubSeq(table, 1, count) ELSE << >>

(***************************************************************************)
(* execute(): the template of BaseConnector, then the adapter's           *)
(* executeQuery.                                                           *)
(***************************************************************************)
\* The connectivity check dropped from the template.
executeCheckNoConnectivity(c, sql) ==
  IF conn[c].options.readonly /\ isWriteQuery(sql) THEN "QueryError/ReadOnly" ELSE "none"

\* The template with the read-only policy checked before connectivity.
executeCheckReadOnlyFirst(c, sql) ==
  IF conn[c].options.readonly /\ isWriteQuery(sql) THEN "QueryError/ReadOnly"
  ELSE IF ~conn[c].isConnected THEN "QueryError/NotConnected"
  ELSE "none"

\* The two checks of execute() before it delegates: what it throws, or "none".
executeCheck(c, sql) ==
  IF ~conn[c].isConnected THEN "QueryError/NotConnected"
  ELSE IF conn[c].options.readonly /\ isWriteQuery(sql) THEN "QueryError/ReadOnly"
  ELSE "none"


\* execute(): `const maxRows = options?.maxRows ?? this.options.maxRows`.
effectiveMaxRows(c, override) == Coalesce(override, <<conn[c].options.maxRows>>)[1]

\* The adapters' own check at the top of executeQuery: `if (!this.pool)`,
\* `if (!this.db)`, `if (!this.session)`.
adapterHandleMissing(c) ==
  IF conn[c].cls = "HiveConnector" THEN conn[c].session = 0 ELSE conn[c].handle = 0

\* What each adapter's executeQuery(sql, params, maxRows) sends to the engine.
\* Postgres, MySQL: wrapWithLimit(sql, maxRows + 1).  SQL Server: its own
\* wrapWithLimit.  SQLite: wrapWithLimit for a SELECT or WITH statement, else the
\* statement as given.  Hive: the statement as given, fetched with
\* fetchChunk({ maxRows: maxRows + 1 }).
submittedBy(c, sql, maxRows) ==
  CASE conn[c].cls \in {"PostgresConnector", "MySqlConnector"} ->
         [text |-> wrapWithLimit(sql, maxRows + 1), fetch |-> 0]
    [] conn[c].cls = "SqlServerConnector" ->
         [text |-> wrapWithLimitSqlServer(sql, maxRows + 1), fetch |-> 0]
    [] conn[c].cls = "SqliteConnector" ->
         LET normalized == toUpperCase(trim(sql))
         IN  [text |-> IF startsWith(normalized, selectKeyword) \/ startsWith(normalized, withKeyword)
                         THEN wrapWithLimit(sql, maxRows + 1) ELSE sql,
              fetch |-> 0]
    [] OTHER -> [text |-> sql, fetch |-> maxRows + 1]

\* The QueryResult an adapter builds from the engine's answer: the rows through
\* formatRows, rowCount as the engine reports it (the rows it returned).  For a
\* statement that returns no rows, the affected-rows report, not modelled further.
queryResult(sub, maxRows) ==
  LET fetched == engineRows(sub)
      out     == formatRows(fetched, maxRows)
  IN  IF isQuery(sub.text)
        THEN [kind      |-> "rows",
              rows      |-> out.rows,
              truncated |-> out.truncated,
              rowCount  |-> Len(fetched)]
        ELSE [NoResult EXCEPT !.kind = "affected"]

\* execute() up to its first await.
ExecuteEnter(p, c, sql, f0) ==
  LET f == [f0 EXCEPT !.call = "execute", !.c = c, !.sql = sql,
                      !.wasConnected = conn[c].isConnected,
                      !.before = Snapshot(conn, c)]
      maxRows == effectiveMaxRows(c, f0.maxRows)
      g == [f EXCEPT !.io = TRUE, !.submitted = submittedBy(c, sql, maxRows)]
  IN  /\ UNCHANGED <<conn, open, sessions, hiveDriver, kerberos, ccache>>
      /\ IF executeCheck(c, sql) # "none" THEN Finish(p, f, executeCheck(c, sql), conn)
         ELSE IF adapterHandleMissing(c) THEN Finish(p, f, "QueryError/NoHandle", conn)
         ELSE IF Pooled(c) THEN Await(p, [g EXCEPT !.pc = "await_query"])
         ELSE IF conn[c].cls = "SqliteConnector"
           THEN \E ok \in BOOLEAN :
                  Finish(p, [g EXCEPT !.result = queryResult(g.submitted, maxRows)],
                         IF ok THEN "none" ELSE "QueryError/Engine", conn)
         ELSE Await(p, [g EXCEPT !.pc = "hive_exec", !.operation = "none"])

\* Postgres, MySQL, SQL Server: the awaited query resolves or rejects.
QueryDone(p) ==
  /\ proc[p].pc = "await_query"
  /\ \E ok \in BOOLEAN :
       Finish(p, [proc[p] EXCEPT !.result = queryResult(proc[p].submitted,
                                                        effectiveMaxRows(proc[p].c, proc[p].maxRows))],
              IF ok THEN "none" ELSE "QueryError/Engine", conn)
  /\ UNCHANGED <<conn, open, sessions, hiveDriver, kerberos, ccache>>
  /\ UNCHANGED static

\* Hive: executeStatement() resolves with an operation (getSchema is awaited
\* next) or rejects.
HiveStatementDone(p) ==
  /\ proc[p].pc = "hive_exec"
  /\ \E ok \in BOOLEAN :
       IF ok THEN Await(p, [proc[p] EXCEPT !.pc = "hive_schema", !.operation = "open"])
             ELSE Finish(p, proc[p], "QueryError/Engine", conn)
  /\ UNCHANGED <<conn, open, sessions, hiveDriver, kerberos, ccache>>
  /\ UNCHANGED static

\* executeQuery() without its finally block: a getSchema() that rejects goes to the
\* catch at once.
HiveSchemaDoneNoFinally(p) ==
  /\ proc[p].pc = "hive_schema"
  /\ \E ok \in BOOLEAN :
       IF ok THEN Await(p, [proc[p] EXCEPT !.pc = "hive_fetch"])
             ELSE Finish(p, proc[p], "QueryError/Engine", conn)
  /\ UNCHANGED <<conn, open, sessions, hiveDriver, kerberos, ccache>>
  /\ UNCHANGED static

\* Hive: getSchema() resolves (fetchChunk is awaited next) or rejects (the
\* finally block awaits operation.close()).
HiveSchemaDone(p) ==
  /\ proc[p].pc = "hive_schema"
  /\ \E ok \in BOOLEAN :
       IF ok THEN Await(p, [proc[p] EXCEPT !.pc = "hive_fetch"])
             ELSE Await(p, [proc[p] EXCEPT !.pc = "hive_opclose", !.pending = "QueryError/Engine"])
  /\ UNCHANGED <<conn, open, sessions, hiveDriver, kerberos, ccache>>
  /\ UNCHANGED static

\* Hive: fetchChunk() resolves or rejects; the finally block awaits operation.close().
HiveFetchDone(p) ==
  /\ proc[p].pc = "hive_fetch"
  /\ \E ok \in BOOLEAN :
       Await(p, [proc[p] EXCEPT !.pc = "hive_opclose",
                                !.pending = IF ok THEN "none" ELSE "QueryError/Engine"])
  /\ UNCHANGED <<conn, open, sessions, hiveDriver, kerberos, ccache>>
  /\ UNCHANGED static

\* Hive: operation.close() resolves (the result built from the fetched chunk, or the
\* pending error, goes on) or rejects (its error replaces them, and the operation is
\* "unclosed").
HiveOperationClosed(p) ==
  /\ proc[p].pc = "hive_opclose"
  /\ \E ok \in BOOLEAN :
       Finish(p, [proc[p] EXCEPT !.pending = "none",
                                 !.operation = IF ok THEN "closed" ELSE "unclosed",
                                 !.result = [queryResult(proc[p].submitted,
                                                         effectiveMaxRows(proc[p].c, proc[p].maxRows))
                                               EXCEPT !.kind = "rows"]],
              IF ok THEN proc[p].pending ELSE "QueryError/Engine", conn)
  /\ UNCHANGED <<conn, open, sessions, hiveDriver, kerberos, ccache>>
  /\ UNCHANGED static

(***************************************************************************)
(* searchObjects()                                                         *)
(***************************************************************************)
showDatabases == <<"S","H","O","W"," ","D","A","T","A","B","A","S","E","S">>

showTables == <<"S","H","O","W"," ","T","A","B","L","E","S"," ","I","N"," ","d","e","f","a","u","l","t">>

\* The statements HiveConnector.searchObjects runs through execute(), in order.
hiveSearchStatements(objectType, tableName) ==
  IF objectType = Undefined THEN <<showDatabases, showTables>>
  ELSE IF objectType = <<"schema">> THEN <<showDatabases>>
  ELSE IF objectType = <<"column">> /\ tableName # Undefined 
    THEN << <<"D","E","S","C","R","I","B","E"," ","d","e","f","a","u","l","t",".","t">> >>
  ELSE << >>

\* searchObjects(options) up to its first await.  Postgres, MySQL, SQL Server, SQLite:
\* `if (!this.pool) throw new Error('Not connected')` (`!this.db` for SQLite), then the
\* catalog queries, taken as one exchange with the engine.  Hive: the listing statements
\* go through execute(), one after the other.
SearchEnter(p, c, objectType, f0) ==
  LET f == [f0 EXCEPT !.call = "searchObjects", !.c = c, !.wasConnected = conn[c].isConnected,
                      !.before = Snapshot(conn, c), !.objectType = objectType]
      statements == hiveSearchStatements(objectType, f0.table)
  IN  IF Pooled(c)
        THEN /\ UNCHANGED <<conn, open, sessions, hiveDriver, kerberos, ccache>>
             /\ IF conn[c].handle = 0
                  THEN Finish(p, f, "Error/NotConnected", conn)
                  ELSE Await(p, [f EXCEPT !.pc = "await_search", !.io = TRUE])
      ELSE IF conn[c].cls = "SqliteConnector"
        THEN /\ UNCHANGED <<conn, open, sessions, hiveDriver, kerberos, ccache>>
             /\ IF conn[c].handle = 0
                  THEN Finish(p, f, "Error/NotConnected", conn)
                  ELSE \E ok \in BOOLEAN :
                         Finish(p, [f EXCEPT !.io = TRUE], IF ok THEN "none" ELSE "Error/Engine", conn)
      ELSE IF statements = << >>
        THEN /\ UNCHANGED <<conn, open, sessions, hiveDriver, kerberos, ccache>>
             /\ Finish(p, f, "none", conn)
      ELSE ExecuteEnter(p, c, Head(statements),
                        [f0 EXCEPT !.objectType = objectType, !.rest = Tail(statements)])

\* Postgres, MySQL, SQL Server: the awaited catalog queries resolve or one rejects.
SearchDone(p) ==
  /\ proc[p].pc = "await_search"
  /\ \E ok \in BOOLEAN : Finish(p, proc[p], IF ok THEN "none" ELSE "Error/Engine", conn)
  /\ UNCHANGED <<conn, open, sessions, hiveDriver, kerberos, ccache>>
  /\ UNCHANGED static

\* Hive: one execute() of searchObjects returned or threw: the error goes to the
\* caller, or the next listing statement is executed, or the objects are returned.
HiveSearchNext(p) ==
  /\ proc[p].op \in {"searchObjects", "searchObjectsTool"}
  /\ proc[p].call = "execute"
  /\ proc[p].pc = "returned"
  /\ IF proc[p].err # "none"
       THEN Return(p, proc[p], proc[p].err) /\ UNCHANGED world
     ELSE IF proc[p].rest = << >>
       THEN Return(p, [proc[p] EXCEPT !.result = NoResult], "none") /\ UNCHANGED world
     ELSE ExecuteEnter(p, proc[p].c, Head(proc[p].rest),
                       [proc[p] EXCEPT !.rest = Tail(@), !.pc = "idle", !.result = NoResult])
  /\ UNCHANGED static

(***************************************************************************)
(* ConnectorManager                                                        *)
(***************************************************************************)
Range(q) == {q[i] : i \in 1..Len(q)}

\* listSourceIds(): the keys of the map, in insertion order.
listSourceIds == mgr.ids

\* getDefault() returning the first connector whatever the size of the map.
getDefaultFirst == IF Len(mgr.ids) >= 1 THEN <<mgr.ids[1]>> ELSE Undefined

\* getDefault(): the only connector, else the one named "default", else undefined.
getDefault ==
  IF Len(mgr.ids) = 1 THEN <<mgr.ids[1]>>
  ELSE IF "default" \in Range(mgr.ids) THEN <<"default">>
  ELSE Undefined

\* `if (sourceId)`: undefined and the empty string are falsy.
Truthy(sid) == sid # Undefined /\ sid[1] # ""

\* resolve() falling back to the default connector for an unknown identifier.
resolveFallsBack(sid) ==
  IF Truthy(sid) /\ sid[1] \in Range(mgr.ids)
    THEN [err |-> "none", c |-> sid[1], list |-> << >>]
    ELSE IF getDefault # Undefined
           THEN [err |-> "none", c |-> getDefault[1], list |-> << >>]
           ELSE [err |-> "Error/MultipleSources", c |-> "", list |-> listSourceIds]

\* resolve(sourceId?): the connector's id, or the error thrown with the ids its message lists.
resolve(sid) ==
  IF Truthy(sid)
    THEN IF sid[1] \in Range(mgr.ids)
           THEN [err |-> "none", c |-> sid[1], list |-> << >>]
           ELSE [err |-> "Error/UnknownSource", c |-> "", list |-> listSourceIds]
    ELSE IF getDefault # Undefined
           THEN [err |-> "none", c |-> getDefault[1], list |-> << >>]
           ELSE [err |-> "Error/MultipleSources", c |-> "", list |-> listSourceIds]

\* The dbType getter of each connector class.
dbType(c) ==
  CASE conn[c].cls = "PostgresConnector"  -> "postgres"
    [] conn[c].cls = "MySqlConnector"     -> IF conn[c].type = "mariadb" THEN "mariadb" ELSE "mysql"
    [] conn[c].cls = "SqlServerConnector" -> "sqlserver"
    [] conn[c].cls = "SqliteConnector"    -> "sqlite"
    [] OTHER                              -> "hive"

\* listSources(): one entry per connector, in insertion order.
listSources ==
  [i \in 1..Len(mgr.ids) |->
     [id |-> mgr.ids[i], type |-> dbType(mgr.ids[i]),
      readonly |-> conn[mgr.ids[i]].options.readonly,
      connected |-> conn[mgr.ids[i]].isConnected]]

\* connectAll() raising as soon as one source failed.
connectAllThrowsOnAny(errors) ==
  IF Len(errors) > 0 THEN "Error/AllFailed" ELSE "none"

\* The end of connectAll(): raise when every source failed.
connectAllThrows(errors) ==
  IF Len(errors) > 0 /\ Len(errors) = Len(mgr.ids) THEN "Error/AllFailed" ELSE "none"

\* disconnectAll() without its try/catch: a failed disconnect ends the loop.
disconnectAllRethrows(err) == err

\* The catch block of disconnectAll(): the error is logged, nothing is rethrown.
disconnectAllThrows(err) == "none"

\* The identifiers callers pass as source_id.
SidInputs == {Undefined, <<"">>, <<"zz">>} \cup {<<id>> : id \in Range(mgr.ids)}

(***************************************************************************)
(* Calls made by a caller on a connector or on the manager.               *)
(***************************************************************************)
ConnectCall(p) ==
  /\ proc[p].op = "idle"
  /\ \E c \in Ids : ConnectEnter(p, c, Begin("connect"))
  /\ UNCHANGED static

DisconnectCall(p) ==
  /\ proc[p].op = "idle"
  /\ \E c \in Ids : DisconnectEnter(p, c, Begin("disconnect"))
  /\ UNCHANGED static

ExecuteCall(p) ==
  /\ proc[p].op = "idle"
  /\ \E c \in Ids, sql \in sqlPool, maxRows \in env.maxRows :
       ExecuteEnter(p, c, sql, [Begin("execute") EXCEPT !.maxRows = maxRows])
  /\ UNCHANGED static

SearchCall(p) ==
  /\ proc[p].op = "idle"
  /\ \E c \in Ids, objectType \in {Undefined, <<"schema">>} : SearchEnter(p, c, objectType, Begin("searchObjects"))
  /\ UNCHANGED static

ResolveCall(p) ==
  /\ proc[p].op = "idle"
  /\ mgr.built
  /\ \E sid \in SidInputs :
       ret' = [ret EXCEPT ![p] = [NoRet EXCEPT !.op = "resolve", !.sid = sid,
                                               !.err = resolve(sid).err,
                                               !.c = resolve(sid).c,
                                               !.list = resolve(sid).list]]
  /\ UNCHANGED <<static, world, proc>>

ListSourcesCall(p) ==
  /\ proc[p].op = "idle"
  /\ mgr.built
  /\ ret' = [ret EXCEPT ![p] = [NoRet EXCEPT !.op = "listSources", !.list = listSources]]
  /\ UNCHANGED <<static, world, proc>>

\* The connector's wrapWithLimit method: the override of SqlServerConnector, else the
\* one inherited from BaseConnector.
wrapWithLimitOf(c, sql, maxRows) ==
  IF conn[c].cls = "SqlServerConnector"
    THEN wrapWithLimitSqlServer(sql, maxRows)
    ELSE wrapWithLimit(sql, maxRows)

\* wrapWithLimit(sql, maxRows + 1) applied to a statement, and again to what it returned
\* (kept in `list`).
WrapWithLimitCall(p) ==
  /\ proc[p].op = "idle"
  /\ \E c \in Ids, sql \in sqlPool :
       LET n    == conn[c].options.maxRows + 1
           once == wrapWithLimitOf(c, sql, n)
       IN  ret' = [ret EXCEPT ![p] = [NoRet EXCEPT !.op = "wrapWithLimit", !.c = c, !.sql = sql,
                                                   !.submitted = [text |-> once, fetch |-> 0],
                                                   !.list = wrapWithLimitOf(c, once, n)]]
  /\ UNCHANGED <<static, world, proc>>

\* formatRows(rows, maxRows) applied to the first k rows of the table (kept in `list`).
FormatRowsCall(p) ==
  /\ proc[p].op = "idle"
  /\ \E c \in Ids, k \in 0..Len(table) :
       LET rows == SubSeq(table, 1, k)
           out  == formatRows(rows, conn[c].options.maxRows)
       IN  ret' = [ret EXCEPT ![p] = [NoRet EXCEPT !.op = "formatRows", !.c = c, !.list = rows,
                                                   !.result = [kind      |-> "rows",
                                                               rows      |-> out.rows,
                                                               truncated |-> out.truncated,
                                                               rowCount  |-> Len(rows)]]]
  /\ UNCHANGED <<static, world, proc>>

\* connectAll(): `for (...) { try { await connector.connect() } catch { errors.push } }`.
ConnectAllCall(p) ==
  /\ proc[p].op = "idle"
  /\ mgr.built
  /\ ConnectEnter(p, Head(mgr.ids), [Begin("connectAll") EXCEPT !.rest = Tail(mgr.ids)])
  /\ UNCHANGED static

\* connectAll() after one connect() returned or threw: the next source, or the end.
ConnectAllNext(p) ==
  /\ proc[p].op = "connectAll"
  /\ proc[p].pc = "returned"
  /\ LET f == [proc[p] EXCEPT !.errors = IF proc[p].err # "none" THEN Append(@, proc[p].c) ELSE @,
                              !.err = "none", !.pc = "idle"]
     IN  IF f.rest = << >>
           THEN /\ Return(p, f, connectAllThrows(f.errors))
                /\ UNCHANGED world
           ELSE ConnectEnter(p, Head(f.rest), [f EXCEPT !.rest = Tail(@)])
  /\ UNCHANGED static

\* disconnectAll(): `for (...) { try { await connector.disconnect() } catch { log } }`.
DisconnectAllCall(p) ==
  /\ proc[p].op = "idle"
  /\ mgr.built
  /\ DisconnectEnter(p, Head(mgr.ids), [Begin("disconnectAll") EXCEPT !.rest = Tail(mgr.ids)])
  /\ UNCHANGED static

DisconnectAllNext(p) ==
  /\ proc[p].op = "disconnectAll"
  /\ proc[p].pc = "returned"
  /\ LET f == [proc[p] EXCEPT !.errors = IF proc[p].err # "none" THEN Append(@, proc[p].c) ELSE @,
                              !.err = "none", !.pc = "idle"]
     IN  IF disconnectAllThrows(proc[p].err) # "none"
           THEN /\ Return(p, f, disconnectAllThrows(proc[p].err))
                /\ UNCHANGED world
         ELSE IF f.rest = << >>
           THEN /\ Return(p, f, "none")
                /\ UNCHANGED world
         ELSE DisconnectEnter(p, Head(f.rest), [f EXCEPT !.rest = Tail(@)])
  /\ UNCHANGED static

(***************************************************************************)
(* The execute_sql tool.  Every error is caught and returned as a result  *)
(* with isError set: the outcome's err is the error the result reports.   *)
(***************************************************************************)
ExecuteSqlTool(p) ==
  /\ proc[p].op = "idle"
  /\ mgr.built
  /\ \E sid \in SidInputs, sql \in sqlPool :
       LET f == [Begin("executeSql") EXCEPT !.sid = sid, !.sql = sql]
           r == resolve(sid)
       IN  IF Len(trim(sql)) = 0
             THEN Return(p, f, "Error/SqlRequired") /\ UNCHANGED world
           ELSE IF r.err # "none"
             THEN Return(p, f, r.err) /\ UNCHANGED world
           ELSE IF ~conn[r.c].isConnected
             THEN ConnectEnter(p, r.c, f)
           ELSE ExecuteEnter(p, r.c, sql, f)
  /\ UNCHANGED static

\* execute_sql going on to execute() whether its connect() threw or not.
ExecuteSqlConnectedAnyway(p) ==
  /\ proc[p].op = "executeSql"
  /\ proc[p].call = "connect"
  /\ proc[p].pc = "returned"
  /\ ExecuteEnter(p, proc[p].c, proc[p].sql, [proc[p] EXCEPT !.pc = "idle", !.err = "none"])
  /\ UNCHANGED static

\* execute_sql after its connect(): the error result, or execute().
ExecuteSqlConnected(p) ==
  /\ proc[p].op = "executeSql"
  /\ proc[p].call = "connect"
  /\ proc[p].pc = "returned"
  /\ IF proc[p].err # "none"
       THEN Return(p, proc[p], proc[p].err) /\ UNCHANGED world
       ELSE ExecuteEnter(p, proc[p].c, proc[p].sql, [proc[p] EXCEPT !.pc = "idle"])
  /\ UNCHANGED static

\* execute_sql after its execute(): the formatted result or the error result.
ExecuteSqlExecuted(p) ==
  /\ proc[p].op = "executeSql"
  /\ proc[p].call = "execute"
  /\ proc[p].pc = "returned"
  /\ Return(p, proc[p], proc[p].err)
  /\ UNCHANGED <<static, world>>

(***************************************************************************)
(* Calls made by a caller on a KerberosAuth it constructed itself.  The   *)
(* outcome's `io` tells whether the call spawned kinit or kdestroy.       *)
(***************************************************************************)
\* The authenticator the callers hold.
Standalone == 1

\* `if (this.initialized) return;` dropped.
initializeAlways(o) == FALSE

\* The first line of initialize(): `if (this.initialized) return;`
initializeReturnsEarly(o) == o.initialized

\* initialize(): `if (this.initialized) return;`, the keytab is looked up
\* (KerberosError when it is missing), then kinit is awaited.
AuthInitialize(p, f) ==
  IF initializeReturnsEarly(kerberos[f.c].objs[f.a])
    THEN Return(p, f, "none")
    ELSE \E found \in BOOLEAN :
           IF found THEN Await(p, [f EXCEPT !.pc = "auth_kinit", !.call = "initialize", !.io = TRUE])
                    ELSE Return(p, f, "KerberosError")

AuthInitializeCall(p) ==
  /\ proc[p].op = "idle"
  /\ \E c \in Ids :
       /\ Kerberized(c)
       /\ AuthInitialize(p, [Begin("initialize") EXCEPT !.c = c, !.a = Standalone])
  /\ UNCHANGED world
  /\ UNCHANGED static

\* refresh() called by a caller: initialize() when not initialized, else kinit is awaited.
AuthRefreshCall(p) ==
  /\ proc[p].op = "idle"
  /\ \E c \in Ids :
       /\ Kerberized(c)
       /\ LET f == [Begin("refresh") EXCEPT !.c = c, !.a = Standalone]
          IN  IF ~kerberos[c].objs[Standalone].initialized
                THEN AuthInitialize(p, f)
                ELSE Await(p, [f EXCEPT !.pc = "auth_kinit", !.call = "refresh", !.io = TRUE])
  /\ UNCHANGED world
  /\ UNCHANGED static

\* The kinit awaited by a caller's initialize() or refresh() ends.  Success:
\* scheduleRefresh(), after `initialized = true` in initialize().  Failure: initialize()
\* throws a KerberosError, refresh() the error of kinit.
AuthKinitDone(p) ==
  /\ proc[p].pc = "auth_kinit"
  /\ \E ok \in BOOLEAN :
       LET c == proc[p].c
           a == proc[p].a
       IN  IF ok
             THEN /\ \E answer \in env.klist, now \in env.clock :
                       kerberos' = [kerberos EXCEPT ![c].objs[a] =
                                      IF proc[p].call = "initialize"
                                        THEN initializeDone(@, answer, now)
                                        ELSE refreshDone(@, answer, now)]
                  /\ ccache' = kinitCache(c)
                  /\ Return(p, proc[p], "none")
             ELSE /\ UNCHANGED <<kerberos, ccache>>
                  /\ Return(p, proc[p], IF proc[p].call = "initialize" THEN "KerberosError"
                                                                      ELSE "Error/Kinit")
  /\ UNCHANGED <<conn, open, sessions, hiveDriver>>
  /\ UNCHANGED static

\* destroy() called by a caller, up to `await this.kdestroy()`.
AuthDestroyCall(p) ==
  /\ proc[p].op = "idle"
  /\ \E c \in Ids :
       /\ Kerberized(c)
       /\ kerberos' = [kerberos EXCEPT ![c] = destroyEnter(@, Standalone)]
       /\ UNCHANGED ccache
       /\ Await(p, [Begin("destroy") EXCEPT !.c = c, !.a = Standalone, !.pc = "auth_kdestroy",
                                            !.call = "destroy", !.io = TRUE])
  /\ UNCHANGED <<conn, open, sessions, hiveDriver>>
  /\ UNCHANGED static

\* The kdestroy awaited by a caller's destroy() ends; a failure is logged.
AuthKdestroyDone(p) ==
  /\ proc[p].pc = "auth_kdestroy"
  /\ \E ok \in BOOLEAN :
       /\ kerberos' = [kerberos EXCEPT ![proc[p].c] = destroyDone(@, proc[p].a, ok)]
       /\ ccache' = IF ok THEN Undefined ELSE ccache
       /\ Return(p, proc[p], "none")
  /\ UNCHANGED <<conn, open, sessions, hiveDriver>>
  /\ UNCHANGED static

\* isValid() called by a caller when the clock reads `now`.
AuthIsValidCall(p) ==
  /\ proc[p].op = "idle"
  /\ \E c \in Ids, now \in env.clock :
       /\ Kerberized(c)
       /\ Return(p, [Begin("isValid") EXCEPT !.c = c, !.a = Standalone, !.now = now,
                                             !.valid = isValid(kerberos[c].objs[Standalone], now)],
                 "none")
  /\ UNCHANGED world
  /\ UNCHANGED static

(***************************************************************************)
(* The search_objects tool                                                 *)
(***************************************************************************)
\* The object_type and table arguments of a search_objects call: a column search
\* without a table, and a column search in table t.
SearchInputs ==
  { [object_type |-> <<"column">>, table |-> Undefined],
    [object_type |-> <<"column">>, table |-> <<"t">>] }

\* search_objects without its validation.
columnWithoutTableAccepted(object_type, tableName) == FALSE

\* `object_type === 'column' && !table`
columnWithoutTable(object_type, tableName) == object_type = <<"column">> /\ ~Truthy(tableName)

\* searchObjects(connectorManager, input): the validation, then resolve(source_id),
\* connect() if the connector is not connected, and searchObjects(); every error
\* becomes an error result.
SearchObjectsTool(p) ==
  /\ proc[p].op = "idle"
  /\ mgr.built
  /\ \E sid \in SidInputs, input \in SearchInputs :
       LET object_type == input.object_type
           f == [Begin("searchObjectsTool") EXCEPT !.sid = sid, !.objectType = object_type,
                                                   !.table = input.table]
           r == resolve(sid)
       IN  IF columnWithoutTable(object_type, input.table)
             THEN Return(p, f, "Error/TableRequired") /\ UNCHANGED world
           ELSE IF r.err # "none"
             THEN Return(p, f, r.err) /\ UNCHANGED world
           ELSE IF ~conn[r.c].isConnected
             THEN ConnectEnter(p, r.c, f)
           ELSE SearchEnter(p, r.c, object_type, f)
  /\ UNCHANGED static

\* search_objects after its connect(): the error result, or searchObjects().
SearchObjectsConnected(p) ==
  /\ proc[p].op = "searchObjectsTool"
  /\ proc[p].call = "connect"
  /\ proc[p].pc = "returned"
  /\ IF proc[p].err # "none"
       THEN Return(p, proc[p], proc[p].err) /\ UNCHANGED world
       ELSE SearchEnter(p, proc[p].c, proc[p].objectType, [proc[p] EXCEPT !.pc = "idle"])
  /\ UNCHANGED static

\* search_objects after the searchObjects() of a connector that runs its catalog
\* queries itself: the formatted objects or the error result.
SearchObjectsSearched(p) ==
  /\ proc[p].op = "searchObjectsTool"
  /\ proc[p].call = "searchObjects"
  /\ proc[p].pc = "returned"
  /\ Return(p, proc[p], proc[p].err)
  /\ UNCHANGED <<static, world>>

(***************************************************************************)
(* Specification                                                           *)
(***************************************************************************)
\* The steps of the calls on connectors with a pool or a database handle, of the manager and of the tool.
NextCore ==
  \/ \E p \in callers : ConnectCall(p)
  \/ \E p \in callers : ConnectDone(p)
  \/ \E p \in callers : DisconnectCall(p)
  \/ \E p \in callers : DisconnectDone(p)
  \/ \E p \in callers : ExecuteCall(p)
  \/ \E p \in callers : QueryDone(p)
  \/ \E p \in callers : SearchCall(p)
  \/ \E p \in callers : SearchDone(p)
  \/ \E p \in callers : ResolveCall(p)
  \/ \E p \in callers : ListSourcesCall(p)
  \/ \E p \in callers : ConnectAllCall(p)
  \/ \E p \in callers : ConnectAllNext(p)
  \/ \E p \in callers : DisconnectAllCall(p)
  \/ \E p \in callers : DisconnectAllNext(p)
  \/ \E p \in callers : ExecuteSqlTool(p)
  \/ \E p \in callers : ExecuteSqlConnected(p)
  \/ \E p \in callers : ExecuteSqlExecuted(p)
  \/ \E p \in callers : SearchObjectsTool(p)
  \/ \E p \in callers : SearchObjectsConnected(p)
  \/ \E p \in callers : SearchObjectsSearched(p)

\* The steps only a HiveConnector takes.
NextHive ==
  \/ \E p \in callers : HiveDriverLoaded(p)
  \/ \E p \in callers : HiveClientConnected(p)
  \/ \E p \in callers : HiveSessionOpened(p)
  \/ \E p \in callers : HiveSessionClosed(p)
  \/ \E p \in callers : HiveClientClosed(p)
  \/ \E p \in callers : KerberosKinitDone(p)
  \/ \E p \in callers : KerberosDestroyed(p)
  \/ \E c \in Ids, a \in Auths : KerberosTimerFired(c, a)
  \/ \E c \in Ids, a \in Auths : KerberosRefreshDone(c, a)
  \/ \E p \in callers : HiveStatementDone(p)
  \/ \E p \in callers : HiveSchemaDone(p)
  \/ \E p \in callers : HiveFetchDone(p)
  \/ \E p \in callers : HiveOperationClosed(p)
  \/ \E p \in callers : HiveSearchNext(p)

Next == NextCore \/ NextHive

\* One caller with every configuration, and two overlapping callers of one connector.
Init == InitSequential \/ InitConcurrent

Spec == Init /\ [][Next]_vars

\* One caller at a time, every configuration.
SpecSequential == InitSequential /\ [][Next]_vars

\* One caller, one Postgres source, every statement: no step of NextHive is ever enabled.
SpecStatements == InitStatements /\ [][NextCore]_vars

\* One caller of one Postgres connector, with and without a maxRows option.
SpecOptions ==
  /\ \E cfg \in SingleConfigs :
       /\ cfg.sources[1].type = "postgres"
       /\ InitIn(cfg, {"t1"}, FewStatements, Rows(MaxTableRows),
                 [clock |-> {0}, klist |-> {a \in KlistAnswers : ~a.ok},
                  maxRows |-> {Undefined, <<MaxRowsOption>>}])
  /\ [][NextCore]_vars

\* The calls on a KerberosAuth, the timer of its renewal and the renewal itself.
NextAuth ==
  \/ \E p \in callers : AuthInitializeCall(p)
  \/ \E p \in callers : AuthRefreshCall(p)
  \/ \E p \in callers : AuthKinitDone(p)
  \/ \E p \in callers : AuthDestroyCall(p)
  \/ \E p \in callers : AuthKdestroyDone(p)
  \/ \E p \in callers : AuthIsValidCall(p)
  \/ \E c \in Ids, a \in Auths : KerberosTimerFired(c, a)
  \/ \E c \in Ids, a \in Auths : KerberosRefreshDone(c, a)

\* Two callers of one KerberosAuth, every reading of the clock and every answer of klist.
InitAuth ==
  \E cfg \in KerberosConfigs :
    /\ InitIn(cfg, {"t1", "t2"}, {selectT}, Rows(0),
              [clock |-> Instants, klist |-> KlistAnswers, maxRows |-> {Undefined}])
    /\ hiveDriver.installed

SpecAuth == InitAuth /\ [][NextAuth]_vars

\* connect() and disconnect() of Hive connectors, and the renewals of their authenticators.
NextCredentials ==
  \/ \E p \in callers : ConnectCall(p)
  \/ \E p \in callers : DisconnectCall(p)
  \/ \E p \in callers : HiveDriverLoaded(p)
  \/ \E p \in callers : HiveClientConnected(p)
  \/ \E p \in callers : HiveSessionOpened(p)
  \/ \E p \in callers : HiveSessionClosed(p)
  \/ \E p \in callers : HiveClientClosed(p)
  \/ \E p \in callers : KerberosKinitDone(p)
  \/ \E p \in callers : KerberosDestroyed(p)
  \/ \E c \in Ids, a \in Auths : KerberosTimerFired(c, a)
  \/ \E c \in Ids, a \in Auths : KerberosRefreshDone(c, a)

\* One caller of two Hive connectors that authenticate with a keytab, each built with
\* `new HiveConnector(config, options)`, the driver installed.
SpecCredentials ==
  /\ \E cfg \in { [settings |-> Settings(FALSE, MaxRowsSetting),
                    sources  |-> <<KerberosSource("k", "hive", Undefined),
                                   KerberosSource("h", "hive", Undefined)>>,
                    direct   |-> TRUE] } :
       InitWith(cfg, {"t1"}, {selectT}, Rows(0)) /\ hiveDriver.installed
  /\ [][NextCredentials]_vars

\* The steps of NextCore and the two functions of row limiting applied on their own.
NextRows ==
  \/ NextCore
  \/ \E p \in callers : WrapWithLimitCall(p)
  \/ \E p \in callers : FormatRowsCall(p)

\* One caller, one source of an engine that rewrites statements, one statement, a table
\* of every size.
SpecRows == InitRows /\ [][NextRows]_vars

(***************************************************************************)
(* Properties.  Each one reads the outcome `ret[p]` of the last call a     *)
(* caller completed: what the call was given, what it threw, whether the  *)
(* engine was reached, and the connector before and after it.             *)
(***************************************************************************)

\* The statements whose first word, after leading whitespace and in any letter case,
\* is one of the twelve write keywords; written from how the statements are built.
BeginsWithWriteKeyword(sql) ==
  \E l \in leads, k \in 1..Len(writeKeywords), t \in tails :
    \E w \in letterCases(writeKeywords[k]) : sql = l \o w \o t

\* A completed execute() of a write statement on a read-only connector.
ReadOnlyWrite(p) ==
  /\ ret[p].op = "execute"
  /\ conn[ret[p].c].options.readonly
  /\ BeginsWithWriteKeyword(ret[p].sql)

\* C1 as stated: on a read-only connector, execute() of a statement that begins with a
\* write keyword always fails with the read-only QueryError and never reaches the engine.
C1_ReadOnlyRejectsWrites ==
  \A p \in callers :
    ReadOnlyWrite(p) => ret[p].err = "QueryError/ReadOnly" /\ ~ret[p].io

\* C1 amended: on a read-only connector, execute() of a statement that begins with a write
\* keyword never reaches the engine; it fails with the read-only QueryError when the
\* connector is connected and with the not-connected QueryError when it is not.
C1_ReadOnlyRejectsWritesWhenConnected ==
  \A p \in callers :
    ReadOnlyWrite(p) =>
      /\ ~ret[p].io
      /\ ret[p].err = IF ret[p].wasConnected THEN "QueryError/ReadOnly"
                                             ELSE "QueryError/NotConnected"

\* A lower-case write statement behind a newline and a tab was rejected as read-only.
C1_Witness ==
  \E p \in callers :
    /\ ReadOnlyWrite(p)
    /\ ret[p].wasConnected
    /\ ret[p].err = "QueryError/ReadOnly"
    /\ startsWith(ret[p].sql, <<"\n", "\t", "r", "e", "p", "l", "a", "c", "e">>)

\* C2: execute() on a connector that is not connected fails with the not-connected
\* QueryError and no statement is sent to the engine.
C2_NotConnectedRejects ==
  \A p \in callers :
    (ret[p].op = "execute" /\ ~ret[p].wasConnected) =>
      ret[p].err = "QueryError/NotConnected" /\ ~ret[p].io

\* execute() was refused on a connector that still holds the handle of a failed connect().
C2_Witness ==
  \E p \in callers :
    /\ ret[p].op = "execute"
    /\ ~ret[p].wasConnected
    /\ ret[p].before.handle # 0
    /\ ret[p].err = "QueryError/NotConnected"

\* C3 as stated: once disconnect() was called on a connected connector, the connector
\* is not connected and references no handle.
C3_DisconnectReleases ==
  \A p \in callers :
    (ret[p].op = "disconnect" /\ ret[p].wasConnected) =>
      ~ret[p].after.isConnected /\ ret[p].after.handle = 0

\* C4 as stated: disconnect() never raises to its caller.
C4_DisconnectNeverRaises ==
  \A p \in callers : ret[p].op = "disconnect" => ret[p].err = "none"

\* C5: disconnectAll() calls disconnect() on every configured connector, in order, also
\* after one whose disconnect failed, and never raises.
C5_DisconnectAllVisitsAll ==
  \A p \in callers :
    ret[p].op = "disconnectAll" =>
      /\ ret[p].err = "none"
      /\ Len(ret[p].visited) = Len(config.sources)
      /\ \A i \in 1..Len(config.sources) : ret[p].visited[i] = config.sources[i].id

\* disconnectAll() went on to a further connector after a disconnect that failed.
C5_Witness ==
  \E p \in callers :
    /\ ret[p].op = "disconnectAll"
    /\ Len(ret[p].visited) >= 2
    /\ ret[p].errors # << >>
    /\ ret[p].errors[1] # ret[p].visited[Len(ret[p].visited)]

\* C6: connectAll() attempts every configured source; it raises exactly when there is
\* a source and every source failed to connect; after it, listSources() reports the
\* sources that failed as not connected and the others as connected.
C6_ConnectAllPartialFailure ==
  \A p \in callers :
    ret[p].op = "connectAll" =>
      /\ Range(ret[p].visited) = SourceIds(config)
      /\ (ret[p].err # "none") <=>
           (SourceIds(config) # {} /\ Range(ret[p].errors) = SourceIds(config))
      /\ \A i \in 1..Len(listSources) :
           listSources[i].connected <=> listSources[i].id \notin Range(ret[p].errors)

\* connectAll() returned normally with one of three sources failed.
C6_Witness ==
  \E p \in callers :
    /\ ret[p].op = "connectAll"
    /\ ret[p].err = "none"
    /\ Len(ret[p].errors) = 1
    /\ Len(ret[p].visited) = 3

\* C7: resolve() without an identifier returns the only connector when exactly one source
\* is configured, otherwise the connector named "default" when there is one, and fails
\* exactly when neither is the case.
C7_ResolveDefault ==
  \A p \in callers :
    (ret[p].op = "resolve" /\ ret[p].sid = Undefined) =>
      IF Cardinality(SourceIds(config)) = 1
        THEN ret[p].err = "none" /\ ret[p].c \in SourceIds(config)
        ELSE IF "default" \in SourceIds(config)
               THEN ret[p].err = "none" /\ ret[p].c = "default"
               ELSE ret[p].err # "none"

\* resolve() chose "default" among three sources of which it is not the first.
C7_Witness ==
  \E p \in callers :
    /\ ret[p].op = "resolve"
    /\ ret[p].sid = Undefined
    /\ ret[p].c = "default"
    /\ config.sources[1].id # "default"

C9_ConnectIdempotent ==
  \A p \in callers :
    (ret[p].op = "connect" /\ ret[p].wasConnected) =>
      /\ ret[p].err = "none"
      /\ ~ret[p].io
      /\ ret[p].after = ret[p].before

\* connect() returned on a connector that was connected and held a handle.
C9_Witness ==
  \E p \in callers :
    /\ ret[p].op = "connect"
    /\ ret[p].wasConnected
    /\ ret[p].before.handle # 0
    /\ ret[p].after.isConnected

\* C10 as stated: a connector never has more than one live engine handle, also when two
\* connect() calls overlap.
C10_SingleHandle ==
  \A c \in Ids : Cardinality(open[c]) <= 1

\* C11 as stated: every connect() that fails raises a ConnectionError and leaves the
\* connector disconnected, whatever the engine and the cause.
C11_ConnectFailsWithConnectionError ==
  \A p \in callers :
    (ret[p].op = "connect" /\ ret[p].err # "none") =>
      ret[p].err = "ConnectionError" /\ ~ret[p].after.isConnected

\* C17: only the leading keyword classifies a statement.  On a connected read-only
\* connector, execute() refuses a statement as a write exactly when its trimmed,
\* case-insensitive text begins with a write keyword; every other statement, also one
\* that holds a write keyword later in its text, is handed to the adapter.
C17_LeadingKeywordOnly ==
  \A p \in callers :
    (ret[p].op = "execute" /\ ret[p].wasConnected /\ conn[ret[p].c].options.readonly) =>
      /\ ret[p].err = "QueryError/ReadOnly" <=> BeginsWithWriteKeyword(ret[p].sql)
      /\ ~BeginsWithWriteKeyword(ret[p].sql) => ret[p].io

\* A SELECT with 'update' in a string literal reached the engine on a read-only connector.
C17_Witness ==
  \E p \in callers :
    /\ ret[p].op = "execute"
    /\ ret[p].wasConnected
    /\ conn[ret[p].c].options.readonly
    /\ startsWith(toUpperCase(trim(ret[p].sql)), <<"S", "E", "L", "E", "C", "T">>)
    /\ includes(ret[p].sql, <<"u", "p", "d", "a", "t", "e">>)
    /\ ret[p].io
    /\ ret[p].err = "none"

\* The readonly flag a source asks for: its own value when it sets one, else the global one.
EffectiveReadonly(id) ==
  IF SourceOf(config, id).readonly # Undefined
    THEN SourceOf(config, id).readonly[1]
    ELSE config.settings.readonly

\* C18: a connector's readonly flag is the source's own value when the source sets one
\* and the global setting otherwise; a write statement on a connected connector is
\* refused as read-only exactly when that flag is true; listSources() reports the flag.
C18_SourceReadonlyWins ==
  /\ \A c \in Ids : conn[c].options.readonly = EffectiveReadonly(c)
  /\ \A p \in callers :
       /\ (ret[p].op = "execute" /\ ret[p].wasConnected /\ BeginsWithWriteKeyword(ret[p].sql)) =>
            (ret[p].err = "QueryError/ReadOnly" <=> EffectiveReadonly(ret[p].c))
       /\ ret[p].op = "listSources" =>
            \A i \in 1..Len(ret[p].list) :
              ret[p].list[i].readonly = EffectiveReadonly(ret[p].list[i].id)

\* A write statement reached the engine of a source that sets readonly=false under
\* global readonly=true.
C18_Witness ==
  \E p \in callers :
    /\ ret[p].op = "execute"
    /\ BeginsWithWriteKeyword(ret[p].sql)
    /\ config.settings.readonly
    /\ SourceOf(config, ret[p].c).readonly = <<FALSE>>
    /\ ret[p].io
    /\ ret[p].err = "none"

\* C19 as stated: the ConnectorManager is built for a source of each DatabaseType
\* (postgres, mysql, mariadb, sqlserver, sqlite, hive, impala) and its construction
\* fails for a source of any other type.
C19_FactoryCoversEveryType ==
  ~config.direct =>
    (mgr.built <=> \A i \in 1..Len(config.sources) : config.sources[i].type \in DatabaseType)

\* C13: formatRows(rows, N) returns truncated=true and exactly the first N rows, in order,
\* when it is given more than N rows; else truncated=false and the rows as given.
C13_TruncationLaw ==
  \A p \in callers :
    ret[p].op = "formatRows" =>
      LET N == conn[ret[p].c].options.maxRows
      IN  IF Len(ret[p].list) > N
            THEN /\ ret[p].result.truncated
                 /\ Len(ret[p].result.rows) = N
                 /\ \A i \in 1..N : ret[p].result.rows[i] = ret[p].list[i]
            ELSE /\ ~ret[p].result.truncated
                 /\ ret[p].result.rows = ret[p].list

\* formatRows was given exactly one row more than maxRows and cut it off.
C13_Witness ==
  \E p \in callers :
    /\ ret[p].op = "formatRows"
    /\ Len(ret[p].list) = conn[ret[p].c].options.maxRows + 1
    /\ ret[p].result.truncated
    /\ Len(ret[p].result.rows) = conn[ret[p].c].options.maxRows

\* The smaller of two numbers.
Min(a, b) == IF a < b THEN a ELSE b

\* A statement that, trimmed and in any letter case, begins with SELECT.
IsSelect(sql) == startsWith(toUpperCase(trim(sql)), selectKeyword)

\* A statement that, trimmed and in any letter case, begins with SELECT or WITH.
IsSelectOrWith(sql) == IsSelect(sql) \/ startsWith(toUpperCase(trim(sql)), withKeyword)

\* C14 as stated: a SELECT or WITH statement without a limiting clause reaches the engine
\* with a clause asking for maxRows+1 rows; every other statement reaches it as given.
C14_LimitInjection ==
  \A p \in callers :
    (ret[p].op = "execute" /\ ret[p].submitted # NoSubmit) =>
      IF IsSelectOrWith(ret[p].sql) /\ limitClause(ret[p].sql) = Undefined
        THEN limitClause(ret[p].submitted.text) = <<conn[ret[p].c].options.maxRows + 1>>
        ELSE ret[p].submitted.text = ret[p].sql

\* The limiting clause of the connector's engine, set off by whitespace, is in the statement.
HasEngineClause(c, sql) ==
  IF conn[c].cls = "SqlServerConnector"
    THEN includes(spaced(toUpperCase(sql)), <<" ", "T", "O", "P", " ">>)
    ELSE includes(spaced(toUpperCase(sql)), <<" ", "L", "I", "M", "I", "T", " ">>)

\* C15 as stated: wrapWithLimit leaves a statement that holds the engine's limiting clause
\* as it is, and applying it twice gives what applying it once gives.
C15_LimitIdempotent ==
  \A p \in callers :
    ret[p].op = "wrapWithLimit" =>
      /\ HasEngineClause(ret[p].c, ret[p].sql) => ret[p].submitted.text = ret[p].sql
      /\ ret[p].list = ret[p].submitted.text

\* The equation alone: wrapWithLimit applied twice gives what applying it once gives.
C15_TwiceIsOnce ==
  \A p \in callers : ret[p].op = "wrapWithLimit" => ret[p].list = ret[p].submitted.text

\* C16 as stated: execute() of a SELECT without a limiting clause on a table of M rows with
\* maxRows = N returns min(M, N) rows, truncated = (M > N) and rowCount = min(M, N + 1).
C16_EndToEndRows ==
  \A p \in callers :
    (ret[p].op = "execute" /\ ret[p].err = "none" /\ ret[p].result.kind = "rows"
       /\ IsSelect(ret[p].sql) /\ limitClause(ret[p].sql) = Undefined) =>
      LET M == Len(table)
          N == conn[ret[p].c].options.maxRows
      IN  /\ ret[p].result.rows = SubSeq(table, 1, Min(M, N))
          /\ ret[p].result.truncated = (M > N)
          /\ ret[p].result.rowCount = Min(M, N + 1)

\* C12 as stated: searchObjects() on a connector that is not connected fails and sends
\* no catalog query to the engine.
C12_SearchRequiresConnected ==
  \A p \in callers :
    (ret[p].op = "searchObjects" /\ ~ret[p].wasConnected) =>
      ret[p].err # "none" /\ ~ret[p].io

\* C20 as stated: after a disconnect() of a connector with Kerberos has returned, no
\* authenticator created for that connector has a pending renewal timer, whether or not
\* the session and the client closed.
C20_DisconnectDestroysAuthenticator ==
  \A p \in callers :
    (ret[p].op = "disconnect" /\ ret[p].c \in Ids /\ Kerberized(ret[p].c)) =>
      \A a \in Auths : ~kerberos[ret[p].c].objs[a].refreshTimer

\* C21 as stated: once destroy() has returned on an authenticator (and no initialize() has
\* succeeded on it since), it has no pending renewal timer, also when a refresh() was in
\* progress while destroy() ran.
C21_DestroyCancelsRenewal ==
  \A c \in Ids :
    LET o == kerberos[c].objs[Standalone]
    IN  (o.destroyed /\ \A p \in callers : proc[p].pc # "auth_kdestroy") => ~o.refreshTimer

\* C22 as stated: destroy() never raises, and once it has returned (and no initialize()
\* has succeeded since) the authenticator is uninitialized: initialized = false, no
\* ticket expiry, isValid() false at every instant, whatever kdestroy answered.
C22_DestroyResets ==
  /\ \A p \in callers : ret[p].op = "destroy" => ret[p].err = "none"
  /\ \A c \in Ids :
       LET o == kerberos[c].objs[Standalone]
       IN  (o.destroyed /\ \A p \in callers : proc[p].pc # "auth_kdestroy") =>
             /\ ~o.initialized
             /\ o.ticketExpiry = << >>
             /\ \A now \in env.clock : ~isValid(o, now)

\* C23: an initialize() called on an authenticator that is already initialized (the
\* second of two calls in a row) returns at once without error, spawns no kinit and
\* changes neither the authenticator nor its scheduled renewal.
C23_SecondInitializeIsNoOp ==
  [][\A p \in callers :
       LET called == /\ proc[p].op = "idle"
                     /\ proc'[p] # proc[p] \/ ret'[p] # ret[p]
                     /\ proc'[p].op = "initialize" \/ (proc'[p].op = "idle" /\ ret'[p].op = "initialize")
           c      == IF proc'[p].op = "initialize" THEN proc'[p].c ELSE ret'[p].c
       IN  (called /\ kerberos[c].objs[Standalone].initialized) =>
             /\ proc'[p].op = "idle"
             /\ ret'[p].err = "none"
             /\ ~ret'[p].io
             /\ kerberos' = kerberos]_vars

\* An initialize() that returned without spawning kinit on an initialized authenticator
\* whose renewal is scheduled.
C23_Witness ==
  \E p \in callers :
    /\ ret[p].op = "initialize"
    /\ ret[p].err = "none"
    /\ ~ret[p].io
    /\ kerberos[ret[p].c].objs[Standalone].initialized
    /\ kerberos[ret[p].c].objs[Standalone].refreshTimer

\* C24: destroy() called on an authenticator that was never initialized does not run
\* kdestroy.
C24_DestroyNeverInitializedSkipsKdestroy ==
  [][\A p \in callers :
       (/\ proc[p].op = "idle"
        /\ proc'[p].op = "destroy"
        /\ ~kerberos[proc'[p].c].objs[Standalone].everInitialized)
         => proc'[p].pc # "auth_kdestroy"]_vars

\* C25: on a connector whose source sets auth_mechanism KERBEROS, connect() creates its
\* client (and so opens the connection and the session) only in the step in which the
\* kinit of initialize() succeeded, with the authenticator initialized; when initialize()
\* fails, that step and the rest of the call open no client and no session, the call ends
\* with a ConnectionError and the connector is not connected.
C25_KerberosBeforeSession ==
  [][\A p \in callers :
       LET c  == proc[p].c
           kc == c \in Ids /\ SourceOf(config, c).auth_mechanism = "KERBEROS"
       IN  /\ (kc /\ proc[p].pc # "hive_connect" /\ proc'[p].pc = "hive_connect") =>
                /\ proc[p].pc = "krb_kinit"
                /\ kerberos'[c].auth # 0
                /\ kerberos'[c].objs[kerberos'[c].auth].initialized
           /\ (kc /\ proc[p].pc \in {"hive_load", "krb_kinit"} /\ proc'[p].pc = "krb_destroy") =>
                /\ ~proc'[p].io
                /\ conn' = conn /\ open' = open /\ sessions' = sessions
           /\ (kc /\ proc[p].pc = "krb_destroy" /\ proc[p].call = "connect" /\ ~proc[p].io
                  /\ proc'[p] # proc[p]) =>
                /\ open' = open /\ sessions' = sessions
                /\ ~conn'[c].isConnected
                /\ \/ proc'[p].op = "idle" /\ ret'[p].err = "ConnectionError"
                   \/ proc'[p].pc = "returned" /\ proc'[p].err = "ConnectionError"]_vars

\* A connect() on a Kerberos source is opening its session with an initialized
\* authenticator.
C25_Witness ==
  \E p \in callers :
    /\ proc[p].pc = "hive_open"
    /\ SourceOf(config, proc[p].c).auth_mechanism = "KERBEROS"
    /\ kerberos[proc[p].c].auth # 0
    /\ kerberos[proc[p].c].objs[kerberos[proc[p].c].auth].initialized

\* A connect() on a Kerberos source ended with a ConnectionError before any client was
\* created.
C25_InitializeFailed ==
  \E p \in callers :
    /\ ret[p].op = "connect"
    /\ ret[p].c \in Ids
    /\ SourceOf(config, ret[p].c).auth_mechanism = "KERBEROS"
    /\ ret[p].err = "ConnectionError"
    /\ ~ret[p].io

\* C26: isValid() returns true exactly when the authenticator is initialized and its
\* ticket expiry is unknown or strictly later than the instant of the call; it is false
\* before initialize() has succeeded, false once a known expiry has been reached, and
\* false after a destroy() whose kdestroy succeeded.
C26_IsValid ==
  [][\A p \in callers :
       (proc[p].op = "idle" /\ ret'[p] # ret[p] /\ ret'[p].op = "isValid") =>
         LET o   == kerberos[ret'[p].c].objs[Standalone]
             now == ret'[p].now
         IN  /\ ret'[p].valid <=> /\ o.initialized
                                  /\ o.ticketExpiry = << >> \/ now < o.ticketExpiry[1]
             /\ ~o.everInitialized => ~ret'[p].valid
             /\ (o.ticketExpiry # << >> /\ o.ticketExpiry[1] <= now) => ~ret'[p].valid
             /\ (o.destroyed /\ ~o.initialized) => ~ret'[p].valid]_vars

\* isValid() returned false on an initialized authenticator at the very instant its
\* ticket expires.
C26_Witness ==
  \E p \in callers :
    /\ ret[p].op = "isValid"
    /\ ~ret[p].valid
    /\ kerberos[ret[p].c].objs[Standalone].initialized
    /\ kerberos[ret[p].c].objs[Standalone].ticketExpiry = <<ret[p].now>>

\* isValid() returned true on an initialized authenticator whose ticket expires later.
C26_ReturnedTrue ==
  \E p \in callers :
    /\ ret[p].op = "isValid"
    /\ ret[p].valid
    /\ kerberos[ret[p].c].objs[Standalone].ticketExpiry # << >>
    /\ ret[p].now < kerberos[ret[p].c].objs[Standalone].ticketExpiry[1]

\* C27: the delay of every scheduled renewal is max(0, expiry - now - 10 minutes) when
\* the ticket expiry is known and 4 hours when it is not; it is never negative, and it is
\* 0 when the ticket has expired or expires within 10 minutes.
C27_RenewalDelay ==
  \A c \in Ids : \A a \in Auths :
    LET o == kerberos[c].objs[a]
        s == o.scheduled
    IN  o.refreshTimer =>
          /\ s.refreshIn >= 0
          /\ s.expiry = << >> => s.refreshIn = FOUR_HOURS
          /\ s.expiry # << >> =>
               LET left == s.expiry[1] - s.now - TEN_MINUTES
               IN  /\ left > 0 => s.refreshIn = left
                   /\ left <= 0 => s.refreshIn = 0

\* A renewal is scheduled with delay 0 for a ticket that has already expired.
C27_Witness ==
  \E c \in Ids :
    LET o == kerberos[c].objs[Standalone]
    IN  /\ o.refreshTimer
        /\ o.scheduled.expiry # << >>
        /\ o.scheduled.expiry[1] < o.scheduled.now
        /\ o.scheduled.refreshIn = 0

\* A renewal is scheduled ahead of a known expiry, and one with the default delay.
C27_ScheduledAhead ==
  \E c \in Ids :
    LET o == kerberos[c].objs[Standalone]
    IN  /\ o.refreshTimer
        /\ o.scheduled.expiry # << >>
        /\ o.scheduled.refreshIn = TEN_MINUTES

C27_ScheduledDefault ==
  \E c \in Ids :
    LET o == kerberos[c].objs[Standalone]
    IN  /\ o.refreshTimer
        /\ o.scheduled.expiry = << >>
        /\ o.scheduled.refreshIn = FOUR_HOURS

\* C28: a search_objects call with object type 'column' and no table name ends with the
\* error result of the validation, and no connector was resolved, connected or queried
\* for it.
C28_ColumnSearchNeedsTable ==
  \A p \in callers :
    (/\ ret[p].op = "searchObjectsTool"
     /\ ret[p].objectType = <<"column">>
     /\ ret[p].table = Undefined) =>
       /\ ret[p].err = "Error/TableRequired"
       /\ ret[p].c = ""
       /\ ~ret[p].io
       /\ ret[p].visited = << >>

\* While a search_objects call for columns without a table is in progress, it has not
\* got as far as a connector.
C28_NoConnectorStep ==
  \A p \in callers :
    (/\ proc[p].op = "searchObjectsTool"
     /\ proc[p].objectType = <<"column">>
     /\ proc[p].table = Undefined) => proc[p].c = ""

\* A column search without a table was rejected although it named an existing source
\* that is not connected.
C28_Witness ==
  \E p \in callers :
    /\ ret[p].op = "searchObjectsTool"
    /\ ret[p].objectType = <<"column">>
    /\ ret[p].table = Undefined
    /\ ret[p].err = "Error/TableRequired"
    /\ ret[p].sid # Undefined
    /\ ret[p].sid[1] \in Ids
    /\ ~conn[ret[p].sid[1]].isConnected

\* C29: no step of any call adds, removes or replaces an entry of the manager's map: the
\* keys and their order stay as the constructor left them, and every connector keeps its
\* class, type and options; only its connected flag and its handles change.
C29_ConnectorMapFixed ==
  [][/\ mgr' = mgr
     /\ DOMAIN conn' = DOMAIN conn
     /\ \A c \in DOMAIN conn :
          /\ conn'[c].cls = conn[c].cls
          /\ conn'[c].type = conn[c].type
          /\ conn'[c].options = conn[c].options]_vars

\* The keys of the map are the identifiers of the configuration, in its order, in every
\* state.
C29_KeysOfConfiguration ==
  /\ mgr.built => mgr.ids = [i \in 1..Len(config.sources) |-> config.sources[i].id]
  /\ mgr.built => DOMAIN conn = Range(mgr.ids)

\* A disconnectAll() went through a map of two sources after one of them, a read-only
\* one, had been connected, and the map is as it was built.
C29_Witness ==
  \E p \in callers :
    /\ ret[p].op = "disconnectAll"
    /\ Len(mgr.ids) >= 2
    /\ ret[p].visited = mgr.ids
    /\ \E c \in Ids : conn[c].options.readonly /\ ~conn[c].isConnected /\ conn[c].handle = 0
    /\ DOMAIN conn = Range(mgr.ids)

\* C30 as stated: while an authenticator is initialized and not destroyed, a renewal
\* timer is pending or a renewal is in progress, also after a renewal attempt failed.
C30_RenewalLoopSurvives ==
  \A c \in Ids :
    LET o == kerberos[c].objs[Standalone]
    IN  (o.initialized /\ ~o.destroyed) =>
          \/ o.refreshTimer
          \/ o.refreshing # "no"
          \/ \E p \in callers : proc[p].pc = "auth_kinit" /\ proc[p].c = c

\* C31: execute() checks connectivity first, then the read-only policy, then delegates.
\* On a connector that is not connected every statement, a write on a read-only connector
\* included, fails with the not-connected error; on a connected read-only connector a
\* write fails with the read-only error; a statement reaches the engine only after
\* passing both checks, limited to the maxRows of the call's options when they give one
\* and to the connector's maxRows otherwise.
C31_ExecuteOrder ==
  \A p \in callers :
    ret[p].op = "execute" =>
      LET c       == ret[p].c
          write   == conn[c].options.readonly /\ BeginsWithWriteKeyword(ret[p].sql)
          maxRows == IF ret[p].maxRows # Undefined THEN ret[p].maxRows[1]
                     ELSE conn[c].options.maxRows
      IN  /\ ~ret[p].wasConnected => ret[p].err = "QueryError/NotConnected" /\ ~ret[p].io
          /\ (ret[p].wasConnected /\ write) => ret[p].err = "QueryError/ReadOnly" /\ ~ret[p].io
          /\ ret[p].io => ret[p].wasConnected /\ ~write
          /\ (ret[p].io /\ IsSelect(ret[p].sql)) =>
               limitClause(ret[p].submitted.text) = <<maxRows + 1>>

\* A write statement was refused as not connected on a read-only connector.
C31_Witness ==
  \E p \in callers :
    /\ ReadOnlyWrite(p)
    /\ ~ret[p].wasConnected
    /\ ret[p].err = "QueryError/NotConnected"

\* A SELECT reached the engine limited by the maxRows of the call's options, which is
\* not the connector's.
C31_OverrideUsed ==
  \E p \in callers :
    /\ ret[p].op = "execute"
    /\ ret[p].io
    /\ ret[p].maxRows # Undefined
    /\ ret[p].maxRows[1] # conn[ret[p].c].options.maxRows
    /\ limitClause(ret[p].submitted.text) = <<ret[p].maxRows[1] + 1>>

\* A statement with TOP or OFFSET as a word of its own, in any letter case.
HasTopOrOffset(sql) ==
  \/ includes(spaced(toUpperCase(sql)), <<" ", "T", "O", "P", " ">>)
  \/ includes(spaced(toUpperCase(sql)), <<" ", "O", "F", "F", "S", "E", "T", " ">>)

\* The statement with ' TOP n' put directly behind its leading SELECT, the whitespace
\* in front of that SELECT kept.
TopInserted(sql, n) ==
  LET k == Len(sql) - Len(trimStart(sql))
  IN  SubSeq(sql, 1, k + Len(selectKeyword)) \o <<" ", "T", "O", "P", " ">> \o digits(n)
        \o SubSeq(sql, k + Len(selectKeyword) + 1, Len(sql))

\* C32 as stated: a SqlServerConnector sends every statement that begins with SELECT,
\* leading whitespace and letter case aside, and holds no TOP or OFFSET with
\* 'TOP maxRows+1' directly behind the leading SELECT, and every other statement as given.
C32_SqlServerTop ==
  \A p \in callers :
    (/\ ret[p].op = "execute"
     /\ ret[p].submitted # NoSubmit
     /\ conn[ret[p].c].cls = "SqlServerConnector") =>
       IF IsSelect(ret[p].sql) /\ ~HasTopOrOffset(ret[p].sql)
         THEN toUpperCase(ret[p].submitted.text)
                = toUpperCase(TopInserted(ret[p].sql, conn[ret[p].c].options.maxRows + 1))
         ELSE ret[p].submitted.text = ret[p].sql

\* The same for the statements that begin with SELECT at their first character.
C32_WithoutLeadingWhitespace ==
  \A p \in callers :
    (/\ ret[p].op = "execute"
     /\ ret[p].submitted # NoSubmit
     /\ conn[ret[p].c].cls = "SqlServerConnector"
     /\ trimStart(ret[p].sql) = ret[p].sql) =>
       IF IsSelect(ret[p].sql) /\ ~HasTopOrOffset(ret[p].sql)
         THEN toUpperCase(ret[p].submitted.text)
                = toUpperCase(TopInserted(ret[p].sql, conn[ret[p].c].options.maxRows + 1))
         ELSE ret[p].submitted.text = ret[p].sql

\* The two tools that resolve a connector and connect it themselves.
AutoConnectTools == {"executeSql", "searchObjectsTool"}

\* C33: a call of execute_sql or search_objects that resolved a connector calls its
\* connect() first when it is not connected, and calls execute() or searchObjects() only
\* on a connected connector, after that connect() returned without error; when
\* resolve() or connect() throws, neither is called, nothing is sent to an engine for
\* the statement, and the call ends with an error result that reports the error.
C33_ToolsAutoConnect ==
  [][\A p \in callers :
       LET f == proc[p]
           g == proc'[p]
           served == {"execute", "searchObjects"}
       IN  /\ (f.op = "idle" /\ g.op \in AutoConnectTools) =>
                IF conn[g.c].isConnected THEN g.call \in served ELSE g.call = "connect"
           /\ (g.op \in AutoConnectTools /\ g.call \in served /\ f.call \notin served) =>
                /\ conn[g.c].isConnected
                /\ f.call = "connect" => f.pc = "returned" /\ f.err = "none"
           /\ (f.op \in AutoConnectTools /\ f.call = "connect" /\ f.pc = "returned"
                 /\ f.err # "none" /\ g # f) =>
                /\ g.op = "idle"
                /\ ret'[p].op = f.op
                /\ ret'[p].err = f.err
                /\ ret'[p].submitted = NoSubmit
                /\ conn' = conn /\ open' = open /\ sessions' = sessions
           /\ (ret'[p].op \in AutoConnectTools /\ ret'[p].c = "") =>
                ret'[p].err # "none" /\ ~ret'[p].io /\ ret'[p].visited = << >>]_vars

\* An execute_sql call ended with the ConnectionError of the connect() it made itself,
\* and no statement was submitted.
C33_Witness ==
  \E p \in callers :
    /\ ret[p].op = "executeSql"
    /\ ret[p].visited # << >>
    /\ ret[p].err = "ConnectionError"
    /\ ret[p].submitted = NoSubmit
    /\ ~conn[ret[p].c].isConnected

\* A search_objects call connected the connector itself and then searched it.
C33_SearchAfterConnect ==
  \E p \in callers :
    /\ ret[p].op = "searchObjectsTool"
    /\ ret[p].visited # << >>
    /\ ret[p].err = "none"
    /\ ret[p].wasConnected
    /\ ret[p].io

\* The authenticator connector c holds reports isValid() = true at some reading of the clock.
ReportsValid(c) ==
  /\ kerberos[c].auth # 0
  /\ \E now \in env.clock : isValid(kerberos[c].objs[kerberos[c].auth], now)

\* C34: whenever the authenticator of a Kerberos-backed connector reports
\* isValid() = true, the credentials it obtained are in the credential cache: neither a
\* disconnect() nor a failed connect() of another connector removes them.
C34_CredentialsPresent ==
  \A c \in Ids : ReportsValid(c) => ccache = SourceOf(config, c).user_principal

\* With a single Kerberos-backed authenticator, the credentials of an authenticator that
\* reports isValid() = true are in the credential cache.
C34_SingleAuthenticator ==
  \A c \in Ids :
    \A a \in Auths, now \in env.clock :
      isValid(kerberos[c].objs[a], now) => ccache = SourceOf(config, c).user_principal

\* C35: after a connect() that threw, the connector holds no engine handle and nothing
\* the attempt created is left open.
C35_FailedConnectKeepsNothing ==
  \A p \in callers :
    (proc[p].op = "idle" /\ ret[p].op = "connect" /\ ret[p].err # "none") =>
      /\ ret[p].after.handle = 0
      /\ conn[ret[p].c].handle = 0
      /\ open[ret[p].c] = {}
      /\ sessions[ret[p].c] = {}

\* After a connect() of a SQLite connector that threw, the connector holds no database
\* handle and none is left open.
C35_SqliteKeepsNothing ==
  \A p \in callers :
    (proc[p].op = "idle" /\ ret[p].op = "connect" /\ ret[p].err # "none"
       /\ conn[ret[p].c].cls = "SqliteConnector") =>
      /\ conn[ret[p].c].handle = 0
      /\ open[ret[p].c] = {}

\* C36: a connector whose isConnected is true holds its handle (pool, database handle or
\* session), and no execute() ends in the adapter's own 'Not connected' error.
C36_ConnectedHasHandle ==
  /\ \A c \in Ids : conn[c].isConnected => ~adapterHandleMissing(c)
  /\ \A p \in callers : ret[p].err # "QueryError/NoHandle"

\* With calls made one at a time, a connector whose isConnected is true holds its handle
\* and no execute() ends in the adapter's own 'Not connected' error.
C36_OneCallAtATime ==
  /\ \A c \in Ids : conn[c].isConnected => ~adapterHandleMissing(c)
  /\ \A p \in callers : ret[p].err # "QueryError/NoHandle"
  /\ \A p \in callers : ret[p].op = "execute" /\ ret[p].io => ret[p].wasConnected

\* C37: every authenticator has at most one renewal timer pending, whatever the order of
\* initialize(), refresh() by the timer or by a caller, and destroy().
C37_OneTimerPending ==
  \A c \in Ids : \A a \in Auths : kerberos[c].objs[a].timers <= 1

\* A caller's refresh() scheduled the renewal of an authenticator that initialize() had
\* scheduled before, and one timer is pending.
C37_Witness ==
  \E p \in callers :
    /\ ret[p].op = "refresh"
    /\ ret[p].err = "none"
    /\ proc[p].op = "idle"
    /\ kerberos[ret[p].c].objs[Standalone].everInitialized
    /\ kerberos[ret[p].c].objs[Standalone].refreshTimer
    /\ kerberos[ret[p].c].objs[Standalone].timers = 1

\* The steps of HiveConnector.executeQuery between executeStatement() and the end of
\* operation.close().
InsideOperation == {"hive_schema", "hive_fetch", "hive_opclose"}

\* C38: an operation that executeStatement() opened is open only while executeQuery()
\* is between executeStatement() and the end of operation.close(): when executeQuery()
\* has returned or thrown, close() was awaited on it, whether getSchema() and
\* fetchChunk() succeeded or failed; and an execute() that reached the engine of a Hive
\* connector ends with its result or with a QueryError, the one of close() included.
C38_HiveOperationClosed ==
  \A p \in callers :
    /\ proc[p].operation = "open" => proc[p].pc \in InsideOperation
    /\ ret[p].operation # "open"
    /\ (ret[p].op = "execute" /\ ret[p].io /\ conn[ret[p].c].cls = "HiveConnector") =>
         /\ ret[p].err \in {"none", "QueryError/Engine"}
         /\ ret[p].operation = "unclosed" => ret[p].err = "QueryError/Engine"
         /\ ret[p].err = "none" => ret[p].operation = "closed"

\* An execute() on a Hive connector threw the QueryError of a step that failed after
\* executeStatement(), and its operation was closed.
C38_Witness ==
  \E p \in callers :
    /\ ret[p].op = "execute"
    /\ conn[ret[p].c].cls = "HiveConnector"
    /\ ret[p].err = "QueryError/Engine"
    /\ ret[p].operation = "closed"

\* An execute() on a Hive connector threw the QueryError of a close() that rejected.
C38_CloseFailed ==
  \E p \in callers :
    /\ ret[p].op = "execute"
    /\ ret[p].err = "QueryError/Engine"
    /\ ret[p].operation = "unclosed"

====
